---- MODULE Spec2Model ----
(***************************************************************************)
(* A model of the TRAX document crate (trax_document): Document::new       *)
(* driven by the tokens of trax_parser::Tokenizer, the renderer            *)
(* into_string, and the mutation API insert / drop.                        *)
(*                                                                         *)
(* Rust indices are 0-based; a store Vec<Option<T>> is a sequence whose    *)
(* position i+1 holds slot i, and Option<T> is a sequence of length <= 1   *)
(* (<<>> is None, <<x>> is Some(x)).                                       *)
(***************************************************************************)
EXTENDS Integers, Sequences, FiniteSets, TLC

\* ---------------------------------------------------------------- bounds
\* The element store never grows beyond this many slots (root included).
MaxElements == 3
\* Document::new reads at most this many ElementStart tokens after the root.
MaxParsedElements == 2
\* Document::new reads at most this many Text tokens.
MaxTexts == 1
\* Attributes and modifiers read per parsed document.
MaxAttributes == 1
\* The largest n tried in InsertFrontN(n), InsertBackN(n) and Replace(n).
MaxN == 2
MaxPieces == 4
\* A source text given to Document::new is at most this many pieces long.
MaxDocPieces == 4
\* How often a rendered text is parsed again.
MaxRounds == 1

\* usize::MAX, the value `0usize - 1` wraps to when overflow checks are off.
\* The model's integers are 32 bits wide, so the 64-bit value is stood in for
\* by the largest one they hold; only its order against small n matters.
UsizeMax == 2147483647

\* ---------------------------------------------------------------- data
None == <<>>
Some(x) == <<x>>
IsSome(o) == Len(o) = 1
Unwrap(o) == o[1]

\* EntityRef::Element(i), EntityRef::Text(i)
ElementRef(i) == [tag |-> "Element", idx |-> i]
TextRef(i) == [tag |-> "Text", idx |-> i]

\* Attribute::new(prefix, local, value); value is an Option.
Attribute(prefix, local, value) == [prefix |-> prefix, local |-> local, value |-> value]

\* struct Element
Element(parent, children, prefix, local, attributes) ==
    [parent |-> parent, children |-> children, prefix |-> prefix,
     local |-> local, attributes |-> attributes]

\* struct Text
Text(parent, content) == [parent |-> parent, content |-> content]

\* struct Document
Document(es, ts) == [element_store |-> es, text_store |-> ts]

\* Vec::get(i): Some(slot) when i is in range.
InRange(store, i) == i >= 0 /\ i < Len(store)
\* store[i] of the source, for an index in range.
Slot(store, i) == store[i + 1]
\* store[i] = v
SetSlot(store, i, v) == [store EXCEPT ![i + 1] = v]
Live(store, i) == InRange(store, i) /\ IsSome(Slot(store, i))

\* VecDeque::insert(index, value); the caller has checked index <= len.
InsertAt(s, index, v) == SubSeq(s, 1, index) \o <<v>> \o SubSeq(s, index + 1, Len(s))
\* VecDeque::remove(index) for an index in range. Mutant: pop_front.
RemoveAtFront(s, index) == Tail(s)
RemoveAt(s, index) == SubSeq(s, 1, index) \o SubSeq(s, index + 2, Len(s))

Min(a, b) == IF a < b THEN a ELSE b
\* usize::saturating_sub
SaturatingSub(a, b) == IF a > b THEN a - b ELSE 0

\* The names the inputs are drawn from: (prefix, local) pairs.
QNames == { [prefix |-> "", local |-> "a"], [prefix |-> "p", local |-> "b"] }
TextContents == { "t" }
AttributeInputs == { Attribute("", "k", Some("v")), Attribute("p", "m", None) }

VARIABLES
    element_store,    \* Document::element_store
    text_store,       \* Document::text_store
    hierarchy,        \* Document::new: the stack of open elements
    state,            \* Tokenizer::state
    depth,            \* Tokenizer::depth
    pc,               \* "new", "loop": inside Document::new; "ready": a Document
                      \* exists; "failed": Document::new returned Err;
                      \* "panicked": the thread panicked
    call,             \* the last call made on the program
    ret,              \* what that call returned
    pre,              \* the Document as it was when that call was made
    overflow_checks,  \* the build's overflow-checks setting (debug / release)
    stream,           \* Tokenizer::stream
    fragment_parsing, \* Tokenizer::fragment_parsing
    emitted           \* the Some(..) items Tokenizer::next has returned, in order

vars == <<element_store, text_store, hierarchy, state, depth, pc, call, ret, pre,
          overflow_checks, stream, fragment_parsing, emitted>>


\* ---------------------------------------------------------------- tokenizer
\* enum Token / enum ElementEnd, with the spans left out: the document reads
\* only the strings. kind "None" is the iterator's end, "Err" an Err(Error).
Token(kind, end, prefix, local, text) ==
    [kind |-> kind, end |-> end, prefix |-> prefix, local |-> local, text |-> text]

NoneToken == Token("None", "", "", "", "")
ErrToken == Token("Err", "", "", "", "")
CommentToken == Token("Comment", "", "", "", "c")
RootName == [prefix |-> "", local |-> "document"]
StartNames == QNames \cup {RootName}

\* One poll of the tokenizer (Tokenizer::next over parse_next_impl) seen from
\* the consumer: the tokens it can yield from `st` at depth `d`, each with
\* the state and depth it leaves behind. Which one comes depends on the text.
TokenizerNext(st, d, fp) ==
    LET after(dd) == IF dd = 0 /\ ~fp THEN "AfterElements" ELSE "Elements"
        out(t, s2, d2) == [token |-> t, state |-> s2, depth |-> d2]
        end == {out(NoneToken, st, d)}
        err == {out(ErrToken, "End", d)}
    IN  CASE st = "Root" ->
               { out(Token("ElementStart", "", q.prefix, q.local, ""), "Attributes", d)
                   : q \in StartNames }
               \cup {out(CommentToken, "Root", d)} \cup err \cup end
          [] st = "Elements" ->
               { out(Token("ElementEnd", "Close", q.prefix, q.local, ""),
                     after(IF d > 0 THEN d - 1 ELSE d), IF d > 0 THEN d - 1 ELSE d)
                   : q \in StartNames }
               \cup { out(Token("ElementStart", "", q.prefix, q.local, ""), "Attributes", d)
                        : q \in QNames }
               \cup { out(Token("Text", "", "", "", c), "Elements", d) : c \in TextContents }
               \cup {out(CommentToken, "Elements", d)} \cup err \cup end
          [] st = "Attributes" ->
               { out(Token(IF IsSome(a.value) THEN "Attribute" ELSE "Modifier", "",
                           a.prefix, a.local, IF IsSome(a.value) THEN Unwrap(a.value) ELSE ""),
                     "Attributes", d) : a \in AttributeInputs }
               \cup {out(Token("ElementEnd", "Open", "", "", ""), after(d + 1), d + 1)}
               \cup {out(Token("ElementEnd", "Empty", "", "", ""), after(d), d)}
               \cup err \cup end
          [] st = "AfterElements" ->
               {out(CommentToken, "AfterElements", d)} \cup err \cup end
          [] OTHER -> end

\* ------------------------------------------------- the tokenizer on a text
\* A text is a sequence of one-byte characters (each a one-character string);
\* NonXmlChar stands for a control character such as U+0001, which is valid
\* UTF-8 but outside the XML Char production.
NonXmlChar == "U+0001"
Letters == {"a", "c", "d", "e", "k", "m", "n", "o", "p", "t", "u", "v"}
Digits == {"0"}
BOM == <<"0xEF", "0xBB", "0xBF">>

\* xmlchar.rs
is_xml_char(c) == c # NonXmlChar
is_xml_space(c) == c \in {" ", "\t", "\n", "\r"}
is_xml_name_start(c) == c \in Letters \cup {"_"}
is_xml_name(c) == c \in Letters \cup Digits \cup {"_", "-", "."}

\* stream.rs: a Stream is the text with a position and an end, both byte
\* offsets from 0; the byte at offset p is text[p + 1].
Stream(text, pos, end) == [text |-> text, pos |-> pos, end |-> end]
at_end(s) == s.pos >= s.end
curr_byte_unchecked(s) == s.text[s.pos + 1]
CurrByteIs(s, c) == ~at_end(s) /\ curr_byte_unchecked(s) = c
NextByteIs(s, c) == s.pos + 1 < s.end /\ s.text[s.pos + 2] = c
NextByteIsOk(s) == s.pos + 1 < s.end
advance(s, n) == [s EXCEPT !.pos = @ + n]
back(s) == [s EXCEPT !.pos = @ - 1]
jump_to_end(s) == [s EXCEPT !.pos = s.end]
starts_with(s, bytes) ==
    /\ s.pos + Len(bytes) <= s.end
    /\ SubSeq(s.text, s.pos + 1, s.pos + Len(bytes)) = bytes
starts_with_space(s) == ~at_end(s) /\ is_xml_space(curr_byte_unchecked(s))
slice_region(s, start, end) == SubSeq(s.text, start + 1, end)
slice_back(s, start) == slice_region(s, start, s.pos)
StreamOk(s, v) == [s |-> s, err |-> "", v |-> v]
StreamErr(s, e) == [s |-> s, err |-> e, v |-> <<>>]

\* The offsets of the bytes left in the stream
Offsets(s) == s.pos..(s.end - 1)

\* The first offset from s.pos on that is not in `run`, or the end.
FirstStop(s, run) ==
    LET stops == { p \in s.pos..s.end : p = s.end \/ p \notin run }
    IN  CHOOSE p \in stops : \A q \in stops : p <= q

skip_spaces(s) ==
    [s EXCEPT !.pos = FirstStop(s, { p \in Offsets(s) : is_xml_space(s.text[p + 1]) })]

\* for c in self.chars(): a non-XML character is an error, f(self, c) false
\* ends the run; `f` is the set of offsets at which f(self, c) is true.
consume_chars(s, f) ==
    LET q == FirstStop(s, { p \in f : is_xml_char(s.text[p + 1]) })
        s2 == [s EXCEPT !.pos = q]
    IN  IF q < s.end /\ ~is_xml_char(s.text[q + 1])
        THEN StreamErr(s2, "NonXmlChar")
        ELSE StreamOk(s2, slice_back(s2, s.pos))

skip_string(s, bytes) ==
    IF at_end(s) THEN StreamErr(s, "UnexpectedEndOfStream")
    ELSE IF ~starts_with(s, bytes) THEN StreamErr(s, "InvalidString")
    ELSE StreamOk(advance(s, Len(bytes)), <<>>)

consume_byte(s, c) ==
    IF at_end(s) THEN StreamErr(s, "UnexpectedEndOfStream")
    ELSE IF curr_byte_unchecked(s) # c THEN StreamErr(s, "InvalidChar")
    ELSE StreamOk(advance(s, 1), <<>>)

consume_quote(s) ==
    IF at_end(s) THEN StreamErr(s, "UnexpectedEndOfStream")
    ELSE IF curr_byte_unchecked(s) \in {"'", "\""}
         THEN StreamOk(advance(s, 1), curr_byte_unchecked(s))
         ELSE StreamErr(s, "InvalidQuote")

\* Skips spaces, and when `=` follows consumes it and the spaces after it.
try_consume_eq(s) ==
    LET s1 == skip_spaces(s)
    IN  IF CurrByteIs(s1, "=")
        THEN [s |-> skip_spaces(advance(s1, 1)), eq |-> TRUE]
        ELSE [s |-> s1, eq |-> FALSE]

\* prefix ':' local, or local: name characters with at most one ':'.
consume_qname(s) ==
    LET start == s.pos
        q == FirstStop(s, { p \in Offsets(s) : is_xml_name(s.text[p + 1]) \/ s.text[p + 1] = ":" })
        colons == { p \in start..(q - 1) : s.text[p + 1] = ":" }
        splitter == CHOOSE p \in colons : \A r \in colons : p <= r
        s2 == [s EXCEPT !.pos = q]
        prefix == IF colons = {} THEN <<>> ELSE slice_region(s, start, splitter)
        local == IF colons = {} THEN slice_back(s2, start) ELSE slice_back(s2, splitter + 1)
    IN  IF Cardinality(colons) > 1 THEN StreamErr(s2, "InvalidName")
        ELSE IF prefix # <<>> /\ ~is_xml_name_start(prefix[1]) THEN StreamErr(s2, "InvalidName")
        ELSE IF local = <<>> THEN StreamErr(s2, "InvalidName")
        ELSE IF ~is_xml_name_start(local[1]) THEN StreamErr(s2, "InvalidName")
        ELSE StreamOk(s2, [prefix |-> prefix, local |-> local])

\* enum Token with its spans; names, values and texts are the characters of
\* the slice. A span is the pair of its start and end offsets.
SpanToken(kind, end, prefix, local, text, span) ==
    [kind |-> kind, end |-> end, prefix |-> prefix, local |-> local, text |-> text,
     span |-> span]
\* Err(Error::error(cause, _)); Error::UnknownToken has no cause.
Error(error, cause) == [kind |-> "Err", error |-> error, cause |-> cause]
\* The call is inside a loop that no longer changes anything it reads.
NeverReturns == [kind |-> "NeverReturns"]
IsErr(t) == t.kind = "Err"
map_err(r, error) ==
    [s |-> r.s, t |-> IF r.err # "" THEN Error(error, r.err) ELSE r.v]

\* The same with the text read from the `*` of the opening delimiter
parse_comment_impl_FromStar(s) ==
    LET start == s.pos
        c == consume_chars(advance(s, 1),
                           { p \in Offsets(s) : ~starts_with([s EXCEPT !.pos = p], <<"*", "/">>) })
        e == skip_string(c.s, <<"*", "/">>)
    IN  IF c.err # "" THEN c
        ELSE IF e.err # "" THEN e
        ELSE StreamOk(e.s, SpanToken("Comment", "", <<>>, <<>>, c.v, <<start, e.s.pos>>))
\* '/*' ... '*/'
parse_comment_impl(s) ==
    LET start == s.pos
        c == consume_chars(advance(s, 2),
                           { p \in Offsets(s) : ~starts_with([s EXCEPT !.pos = p], <<"*", "/">>) })
        e == skip_string(c.s, <<"*", "/">>)
    IN  IF c.err # "" THEN c
        ELSE IF e.err # "" THEN e
        ELSE StreamOk(e.s, SpanToken("Comment", "", <<>>, <<>>, c.v, <<start, e.s.pos>>))

parse_comment(s) == map_err(parse_comment_impl(s), "InvalidComment")

\* '<' Name
parse_element_start_impl(s) ==
    LET start == s.pos
        n == consume_qname(advance(s, 1))
    IN  IF n.err # "" THEN n
        ELSE StreamOk(n.s, SpanToken("ElementStart", "", n.v.prefix, n.v.local, <<>>,
                                     <<start, n.s.pos>>))

parse_element_start(s) == map_err(parse_element_start_impl(s), "InvalidElement")

\* The same with the name read one byte early, from the `/`
parse_close_element_impl_AdvanceOne(s) ==
    LET n == consume_qname(advance(s, 1))
    IN  IF n.err # "" THEN n ELSE StreamOk(n.s, <<>>)
\* '</' Name S? '>'
parse_close_element_impl(s) ==
    LET start == s.pos
        n == consume_qname(advance(s, 2))
        e == consume_byte(skip_spaces(n.s), ">")
    IN  IF n.err # "" THEN n
        ELSE IF e.err # "" THEN e
        ELSE StreamOk(e.s, SpanToken("ElementEnd", "Close", n.v.prefix, n.v.local, <<>>,
                                     <<start, e.s.pos>>))

parse_close_element(s) == map_err(parse_close_element_impl(s), "InvalidElement")

\* The same with the name accepted whether or not whitespace precedes it
parse_attribute_AnySpace(s0) ==
    LET s == skip_spaces(s0)
        start == s.pos
        empty == consume_byte(advance(s, 1), ">")
        n == consume_qname(s)
        eq == try_consume_eq(n.s)
        quote == consume_quote(eq.s)
        value == consume_chars(quote.s, { p \in Offsets(s) : s.text[p + 1] # quote.v
                                                              /\ s.text[p + 1] # "<" })
        close == consume_byte(value.s, quote.v)
        b == back(eq.s)
        m == IF ~starts_with_space(b) THEN advance(b, 1) ELSE b
    IN  IF CurrByteIs(s, "/")
        THEN IF empty.err # "" THEN empty
             ELSE StreamOk(empty.s, SpanToken("ElementEnd", "Empty", <<>>, <<>>, <<>>,
                                              <<start, empty.s.pos>>))
        ELSE IF CurrByteIs(s, ">")
        THEN StreamOk(advance(s, 1), SpanToken("ElementEnd", "Open", <<>>, <<>>, <<>>,
                                               <<start, start + 1>>))
        ELSE IF n.err # "" THEN n
        ELSE IF eq.eq
        THEN IF quote.err # "" THEN quote
             ELSE IF value.err # "" THEN value
             ELSE IF close.err # "" THEN close
             ELSE StreamOk(close.s, SpanToken("Attribute", "", n.v.prefix, n.v.local, value.v,
                                              <<start, close.s.pos>>))
        ELSE StreamOk(m, SpanToken("Modifier", "", n.v.prefix, n.v.local, <<>>,
                                   <<start, m.pos>>))
\* Name Eq AttValue, a bare Name, '/>' or '>'
parse_attribute(s0) ==
    LET has_space == starts_with_space(s0)
        s == skip_spaces(s0)
        start == s.pos
        empty == consume_byte(advance(s, 1), ">")
        n == consume_qname(s)
        eq == try_consume_eq(n.s)
        quote == consume_quote(eq.s)
        value == consume_chars(quote.s, { p \in Offsets(s) : s.text[p + 1] # quote.v
                                                              /\ s.text[p + 1] # "<" })
        close == consume_byte(value.s, quote.v)
        b == back(eq.s)
        m == IF ~starts_with_space(b) THEN advance(b, 1) ELSE b
    IN  IF CurrByteIs(s, "/")
        THEN IF empty.err # "" THEN empty
             ELSE StreamOk(empty.s, SpanToken("ElementEnd", "Empty", <<>>, <<>>, <<>>,
                                              <<start, empty.s.pos>>))
        ELSE IF CurrByteIs(s, ">")
        THEN StreamOk(advance(s, 1), SpanToken("ElementEnd", "Open", <<>>, <<>>, <<>>,
                                               <<start, start + 1>>))
        ELSE IF ~has_space
        THEN IF ~at_end(s) THEN StreamErr(s, "InvalidSpace")
             ELSE StreamErr(s, "UnexpectedEndOfStream")
        ELSE IF n.err # "" THEN n
        ELSE IF eq.eq
        THEN IF quote.err # "" THEN quote
             ELSE IF value.err # "" THEN value
             ELSE IF close.err # "" THEN close
             ELSE StreamOk(close.s, SpanToken("Attribute", "", n.v.prefix, n.v.local, value.v,
                                              <<start, close.s.pos>>))
        ELSE StreamOk(m, SpanToken("Modifier", "", n.v.prefix, n.v.local, <<>>,
                                   <<start, m.pos>>))

\* The loop of parse_text_impl: s is the stream, chars the offset of the
\* character `chars.next()` yields next. The iterator is a copy made before
\* the loop, so advancing the stream does not move it and the reverse.
RECURSIVE TextLoop(_, _)
TextLoop(s, chars) ==
    IF chars >= s.end
    THEN \* chars.next() is None: the body does nothing and the loop repeats
         [s |-> s, exit |-> "never"]
    ELSE LET c == s.text[chars + 1] IN
         IF ~is_xml_char(c) THEN [s |-> s, exit |-> "NonXmlChar"]
         ELSE IF c = "/"
         THEN IF chars + 1 < s.end
              THEN IF s.text[chars + 2] = "*"
                   THEN [s |-> s, exit |-> "break"]
                   ELSE TextLoop(advance(s, 1), chars + 2)
              ELSE TextLoop(advance(s, 1), chars + 1)
         ELSE IF c # "<" THEN TextLoop(advance(s, 1), chars + 1)
         ELSE [s |-> s, exit |-> "break"]

\* while s.starts_with_space() { s.back() }
RECURSIVE TrimBack(_)
TrimBack(s) == IF starts_with_space(s) THEN TrimBack(back(s)) ELSE s

parse_text_impl(s) ==
    LET start == s.pos
        l == TextLoop(s, s.pos)
        t == advance(TrimBack(back(l.s)), 1)
    IN  IF l.exit = "never" THEN [s |-> l.s, err |-> "", v |-> NeverReturns]
        ELSE IF l.exit = "NonXmlChar" THEN StreamErr(l.s, "NonXmlChar")
        ELSE StreamOk(t, SpanToken("Text", "", <<>>, <<>>, slice_back(t, start),
                                   <<start, t.pos>>))

parse_text(s) == map_err(parse_text_impl(s), "InvalidCharData")

\* struct Tokenizer
Tokenizer(s, st, d, fp) ==
    [stream |-> s, state |-> st, depth |-> d, fragment_parsing |-> fp]

\* impl From<&str> for Tokenizer
From(text) ==
    LET s == Stream(text, 0, Len(text))
        s1 == IF starts_with(s, BOM) THEN advance(s, 3) ELSE s
    IN  Tokenizer(skip_spaces(s1), "Root", 0, FALSE)

\* Tokenizer::from_fragment(full_text, fragment)
from_fragment(full_text, fragment) ==
    Tokenizer(Stream(full_text, fragment[1], fragment[2]), "Elements", 0, TRUE)

\* The same leaving Elements one level early
AfterElementEndAtOne(d, fp) ==
    IF d <= 1 /\ ~fp THEN "AfterElements" ELSE "Elements"
\* The same never leaving Elements
AfterElementEndStays(d, fp) == "Elements"
\* The same without the fragment flag
AfterElementEndOfDocument(d, fp) ==
    IF d = 0 THEN "AfterElements" ELSE "Elements"
\* if self.depth == 0 && !self.fragment_parsing: the state after an ElementEnd
AfterElementEnd(d, fp) ==
    IF d = 0 /\ ~fp THEN "AfterElements" ELSE "Elements"

\* Some(r.t) returned with the stream as the parse function left it
Returning(tk, r) == [tk |-> [tk EXCEPT !.stream = r.s], t |-> Some(r.t)]

\* The same with the depth left as it is by every ElementEnd
AttributesStateKeepsDepth(tk, a) ==
    IF a.t.kind = "ElementEnd"
    THEN Returning([tk EXCEPT !.state = AfterElementEnd(tk.depth, tk.fragment_parsing)], a)
    ELSE Returning(tk, a)
\* The same with the depth raised by every ElementEnd, `/>` included
AttributesStateCountsEmpty(tk, a) ==
    LET da == IF a.t.kind = "ElementEnd" THEN tk.depth + 1 ELSE tk.depth
    IN  IF a.t.kind = "ElementEnd"
        THEN Returning([tk EXCEPT !.depth = da,
                                  !.state = AfterElementEnd(da, tk.fragment_parsing)], a)
        ELSE Returning(tk, a)
\* State::Attributes, once parse_attribute has given `a`
AttributesState(tk, a) ==
    LET da == IF a.t.kind = "ElementEnd" /\ a.t.end = "Open" THEN tk.depth + 1 ELSE tk.depth
    IN  IF a.t.kind = "ElementEnd"
        THEN Returning([tk EXCEPT !.depth = da,
                                  !.state = AfterElementEnd(da, tk.fragment_parsing)], a)
        ELSE Returning(tk, a)

\* The same decrementing at depth 0 too, as usize does without overflow checks
CloseDepthUnguarded(d) == IF d > 0 THEN d - 1 ELSE UsizeMax
\* if self.depth > 0 { self.depth -= 1 }: the depth after a close tag
CloseDepth(d) == IF d > 0 THEN d - 1 ELSE d

\* Tokenizer::parse_next_impl: the tokenizer it leaves and the Option it returns.
parse_next_impl(tk) ==
    LET s == tk.stream
        out(tk2, r) == Returning(tk2, r)
        unknown(s2) == [s |-> s2, t |-> Error("UnknownToken", "")]
        invalid_name(s2) == [s |-> s2, t |-> Error("InvalidElement", "InvalidName")]
        comment_or_unknown(s2) ==
            IF NextByteIs(s2, "*") THEN parse_comment(s2) ELSE unknown(s2)
        e == skip_spaces(s)
        d == CloseDepth(tk.depth)
    IN  IF at_end(s) THEN [tk |-> tk, t |-> None]
        ELSE CASE tk.state = "Root" ->
                    IF CurrByteIs(s, "<")
                    THEN IF NextByteIs(s, "/") \/ ~NextByteIsOk(s)
                         THEN out(tk, invalid_name(s))
                         ELSE out([tk EXCEPT !.state = "Attributes"], parse_element_start(s))
                    ELSE IF CurrByteIs(s, "/") THEN out(tk, comment_or_unknown(s))
                    ELSE out(tk, unknown(s))
               [] tk.state = "Elements" ->
                    IF CurrByteIs(e, "<")
                    THEN IF NextByteIs(e, "/")
                         THEN out([tk EXCEPT !.depth = d,
                                             !.state = AfterElementEnd(d, tk.fragment_parsing)],
                                  parse_close_element(e))
                         ELSE IF NextByteIsOk(e)
                         THEN out([tk EXCEPT !.state = "Attributes"], parse_element_start(e))
                         ELSE out(tk, unknown(e))
                    ELSE IF CurrByteIs(e, "/") THEN out(tk, comment_or_unknown(e))
                    ELSE IF ~at_end(e) THEN out(tk, parse_text(e))
                    ELSE out(tk, unknown(e))
               [] tk.state = "Attributes" ->
                    AttributesState(tk, map_err(parse_attribute(s), "InvalidAttribute"))
               [] tk.state = "AfterElements" ->
                    IF starts_with(s, <<"/", "*">>) THEN out(tk, parse_comment(s))
                    ELSE IF starts_with_space(s)
                    THEN [tk |-> [tk EXCEPT !.stream = skip_spaces(s)], t |-> None]
                    ELSE out(tk, unknown(s))
               [] OTHER -> [tk |-> tk, t |-> None]

\* while !self.stream.at_end() && self.state != State::End && t.is_none()
RECURSIVE NextWhile(_)
\* t = self.parse_next_impl(), then the loop's test of t.is_none()
NextWhileBody(o) == IF IsSome(o.t) THEN o ELSE NextWhile(o.tk)

\* The same with an error at the end of a text that leaves an element open
NextWhileRefusesOpen(tk) ==
    IF ~at_end(tk.stream) /\ tk.state # "End"
    THEN NextWhileBody(parse_next_impl(tk))
    ELSE IF tk.state \in {"Attributes", "Elements"}
    THEN [tk |-> tk, t |-> Some(Error("UnknownToken", ""))]
    ELSE [tk |-> tk, t |-> None]
NextWhile(tk) ==
    IF ~at_end(tk.stream) /\ tk.state # "End"
    THEN NextWhileBody(parse_next_impl(tk))
    ELSE [tk |-> tk, t |-> None]

\* Without the two assignments after an Err
EndOnErrSkipped(o) == o
\* if let Some(Err(_)) = t { jump_to_end; state = End }; t
EndOnErr(o) ==
    IF IsSome(o.t) /\ IsErr(Unwrap(o.t))
    THEN [tk |-> [o.tk EXCEPT !.stream = jump_to_end(@), !.state = "End"], t |-> o.t]
    ELSE o

\* <Tokenizer as Iterator>::next
next(tk) == EndOnErr(NextWhile(tk))

\* ---------------------------------------------------------------- Document::new
\* The same with the prefix left out of the name
gen_full_name_LocalOnly(prefix, local) == local
\* fn gen_full_name
gen_full_name(prefix, local) ==
    IF prefix # "" THEN prefix \o ":" \o local ELSE local

\* DocumentParseError and the Ok of Document::new
ParseOk == [tag |-> "Ok"]
EmptyDocument == [tag |-> "EmptyDocument"]
InvalidRootElement == [tag |-> "InvalidRootElement"]
SyntaxError == [tag |-> "SyntaxError"]
InvalidTreeStructure(closed, open) ==
    [tag |-> "InvalidTreeStructure", closed_elem |-> closed, current_open_elem |-> open]
Pending == [tag |-> "pending"]
Panic == [tag |-> "panic"]

\* The same with the prefix of the first element not looked at
validate_document_start_AnyPrefix(first_token) ==
    CASE first_token.kind = "ElementStart" /\ first_token.local = "document" -> ParseOk
      [] first_token.kind = "None" -> EmptyDocument
      [] first_token.kind = "Err" -> SyntaxError
      [] OTHER -> InvalidRootElement
\* fn validate_document_start
validate_document_start(first_token) ==
    CASE first_token.kind = "ElementStart"
           /\ first_token.local = "document" /\ first_token.prefix = "" -> ParseOk
      [] first_token.kind = "None" -> EmptyDocument
      [] first_token.kind = "Err" -> SyntaxError
      [] OTHER -> InvalidRootElement

\* The attributes and modifiers stored so far, over the whole store.
RECURSIVE AttributeCount(_)
AttributeCount(es) ==
    IF es = <<>> THEN 0
    ELSE (IF IsSome(es[1]) THEN Len(Unwrap(es[1]).attributes) ELSE 0)
         + AttributeCount(Tail(es))

\* The tokens the bounds let Document::new read.
WithinBounds(t) ==
    CASE t.kind = "ElementStart" -> Len(element_store) < 1 + MaxParsedElements
      [] t.kind = "Text" -> Len(text_store) < MaxTexts
      [] t.kind \in {"Attribute", "Modifier"} -> AttributeCount(element_store) < MaxAttributes
      [] OTHER -> TRUE

\* Document::new up to the construction of the stores: the first token is
\* polled and validated.
NewStart ==
    /\ pc = "new"
    /\ \E o \in TokenizerNext(state, depth, FALSE) :
         LET v == validate_document_start(o.token) IN
         /\ state' = o.state
         /\ depth' = o.depth
         /\ IF v = ParseOk
            THEN /\ pc' = "loop"
                 /\ hierarchy' = <<0>>
                 /\ text_store' = <<>>
                 /\ element_store' = <<Some(Element(0, <<>>, "", "document", <<>>))>>
                 /\ ret' = Pending
            ELSE /\ pc' = "failed"
                 /\ ret' = v
                 /\ UNCHANGED <<hierarchy, text_store, element_store>>
    /\ UNCHANGED <<call, pre, overflow_checks, stream, fragment_parsing, emitted>>

\* The same with the new element not pushed onto the stack of open elements
NewLoopBody_NoPush(t, top_elem) ==
    LET top == Unwrap(Slot(element_store, top_elem))
        element_num == Len(element_store)
        text_num == Len(text_store)
        pop == SubSeq(hierarchy, 1, Len(hierarchy) - 1)
        same == [es |-> element_store, ts |-> text_store, h |-> hierarchy, r |-> Pending]
    IN  CASE t.kind = "ElementEnd" /\ t.end = "Empty" -> [same EXCEPT !.h = pop]
          [] t.kind = "ElementStart" ->
               [same EXCEPT
                  !.es = Append(SetSlot(element_store, top_elem,
                                        Some([top EXCEPT !.children =
                                                Append(@, ElementRef(element_num))])),
                                Some(Element(top_elem, <<>>, t.prefix, t.local, <<>>)))]
          [] t.kind = "Attribute" ->
               [same EXCEPT
                  !.es = SetSlot(element_store, top_elem,
                                 Some([top EXCEPT !.attributes =
                                         Append(@, Attribute(t.prefix, t.local, Some(t.text)))]))]
          [] t.kind = "Modifier" ->
               [same EXCEPT
                  !.es = SetSlot(element_store, top_elem,
                                 Some([top EXCEPT !.attributes =
                                         Append(@, Attribute(t.prefix, t.local, None))]))]
          [] t.kind = "ElementEnd" /\ t.end = "Close"
               /\ top.prefix = t.prefix /\ top.local = t.local -> [same EXCEPT !.h = pop]
          [] t.kind = "ElementEnd" /\ t.end = "Close" ->
               [same EXCEPT !.r = InvalidTreeStructure(gen_full_name(t.prefix, t.local),
                                                       gen_full_name(top.prefix, top.local))]
          [] t.kind = "Text" ->
               [same EXCEPT
                  !.es = SetSlot(element_store, top_elem,
                                 Some([top EXCEPT !.children = Append(@, TextRef(text_num))])),
                  !.ts = Append(text_store, Some(Text(top_elem, t.text)))]
          [] OTHER -> same
\* The body of `for token in tokenizer` for one token, as the next values of
\* (element_store, text_store, hierarchy); top_elem is hierarchy.last().
NewLoopBody(t, top_elem) ==
    LET top == Unwrap(Slot(element_store, top_elem))
        element_num == Len(element_store)
        text_num == Len(text_store)
        pop == SubSeq(hierarchy, 1, Len(hierarchy) - 1)
        same == [es |-> element_store, ts |-> text_store, h |-> hierarchy, r |-> Pending]
    IN  CASE t.kind = "ElementEnd" /\ t.end = "Empty" -> [same EXCEPT !.h = pop]
          [] t.kind = "ElementStart" ->
               [same EXCEPT
                  !.es = Append(SetSlot(element_store, top_elem,
                                        Some([top EXCEPT !.children =
                                                Append(@, ElementRef(element_num))])),
                                Some(Element(top_elem, <<>>, t.prefix, t.local, <<>>))),
                  !.h = Append(hierarchy, element_num)]
          [] t.kind = "Attribute" ->
               [same EXCEPT
                  !.es = SetSlot(element_store, top_elem,
                                 Some([top EXCEPT !.attributes =
                                         Append(@, Attribute(t.prefix, t.local, Some(t.text)))]))]
          [] t.kind = "Modifier" ->
               [same EXCEPT
                  !.es = SetSlot(element_store, top_elem,
                                 Some([top EXCEPT !.attributes =
                                         Append(@, Attribute(t.prefix, t.local, None))]))]
          [] t.kind = "ElementEnd" /\ t.end = "Close"
               /\ top.prefix = t.prefix /\ top.local = t.local -> [same EXCEPT !.h = pop]
          [] t.kind = "ElementEnd" /\ t.end = "Close" ->
               [same EXCEPT !.r = InvalidTreeStructure(gen_full_name(t.prefix, t.local),
                                                       gen_full_name(top.prefix, top.local))]
          [] t.kind = "Text" ->
               [same EXCEPT
                  !.es = SetSlot(element_store, top_elem,
                                 Some([top EXCEPT !.children = Append(@, TextRef(text_num))])),
                  !.ts = Append(text_store, Some(Text(top_elem, t.text)))]
          [] OTHER -> same

\* One turn of the loop of Document::new: poll the tokenizer, return at its
\* end or at an Err, otherwise take hierarchy.last().unwrap() and match.
NewLoop ==
    /\ pc = "loop"
    /\ \E o \in TokenizerNext(state, depth, FALSE) :
         /\ WithinBounds(o.token)
         /\ CASE o.token.kind = "None" ->
                   \* Ok(Self { element_store, text_store }): the tokenizer and
                   \* the stack are locals and end here.
                   /\ pc' = "ready"
                   /\ ret' = ParseOk
                   /\ hierarchy' = <<>>
                   /\ state' = "End"
                   /\ depth' = 0
                   /\ UNCHANGED <<element_store, text_store>>
              [] o.token.kind = "Err" ->
                   /\ pc' = "failed"
                   /\ ret' = SyntaxError
                   /\ state' = o.state
                   /\ depth' = o.depth
                   /\ UNCHANGED <<element_store, text_store, hierarchy>>
              [] o.token.kind \notin {"None", "Err"} /\ hierarchy = <<>> ->
                   /\ pc' = "panicked"
                   /\ ret' = Panic
                   /\ state' = o.state
                   /\ depth' = o.depth
                   /\ UNCHANGED <<element_store, text_store, hierarchy>>
              [] OTHER ->
                   LET b == NewLoopBody(o.token, hierarchy[Len(hierarchy)]) IN
                   /\ state' = o.state
                   /\ depth' = o.depth
                   /\ element_store' = b.es
                   /\ text_store' = b.ts
                   /\ hierarchy' = b.h
                   /\ ret' = b.r
                   /\ pc' = IF b.r = Pending THEN "loop" ELSE "failed"
    /\ UNCHANGED <<call, pre, overflow_checks, stream, fragment_parsing, emitted>>

\* ---------------------------------------------------------------- drop
\* Result<(), DropEntityError>
Ok == [tag |-> "Ok"]
RefuseDropRoot == [tag |-> "RefuseDropRoot"]
NotFound(entity_ref) == [tag |-> "NotFound", ref |-> entity_ref]

\* The first index j (0-based) with children[j] = entity_ref, as the
\* `for (j, c) in ... .enumerate()` loop finds it; -1 stands for sel = None.
FirstIndexOf(children, entity_ref) ==
    LET hits == { j \in 1..Len(children) : children[j] = entity_ref }
    IN  IF hits = {} THEN -1
        ELSE (CHOOSE j \in hits : \A k \in hits : j <= k) - 1

\* `if i == 0` of drop_impl: the root is never dropped. Mutants: a guard
\* that never fires, and one that guards index 1.
IsRootNever(i) == FALSE
IsRootOffByOne(i) == i = 1
IsRoot(i) == i = 0

\* `self.element_store[i] = None` / `self.text_store[i] = None`: the slot is
\* nulled in place. Mutant: the slot is removed and the later ones shift.
NullSlotByRemoving(store, i) == SubSeq(store, 1, i) \o SubSeq(store, i + 2, Len(store))
NullSlot(store, i) == SetSlot(store, i, None)

\* The `if is_parent { ... }` block of drop_impl: look entity_ref up in
\* element_store[parent].children and remove the first match. Indexing a
\* parent out of range, or unwrapping a None parent, panics.
Unlink(es, parent, entity_ref) ==
    IF ~Live(es, parent) THEN [es |-> es, panic |-> TRUE]
    ELSE LET p == Unwrap(Slot(es, parent))
             sel == FirstIndexOf(p.children, entity_ref)
         IN  IF sel = -1 THEN [es |-> es, panic |-> FALSE]
             ELSE [es |-> SetSlot(es, parent,
                                  Some([p EXCEPT !.children = RemoveAt(@, sel)])),
                   panic |-> FALSE]

RECURSIVE drop_impl(_, _, _)
RECURSIVE DropChildren(_, _)

\* Mutant of DropChildren: the children are left alone.
DropChildrenSkipped(doc, children) == [doc |-> doc, res |-> Ok]

\* `for child in children.clone() { self.drop_impl(child, false)?; }`:
\* the first error returns at once and keeps what was dropped before it.
DropChildren(doc, children) ==
    IF children = <<>> THEN [doc |-> doc, res |-> Ok]
    ELSE LET r == drop_impl(doc, Head(children), FALSE)
         IN  IF r.res # Ok THEN r ELSE DropChildren(r.doc, Tail(children))

\* fn drop_impl(&mut self, entity_ref, is_parent): the document it leaves
\* and what it returns.
drop_impl(doc, entity_ref, is_parent) ==
    LET es == doc.element_store
        ts == doc.text_store
        i == entity_ref.idx
        fail(e) == [doc |-> doc, res |-> e]
    IN  IF entity_ref.tag = "Element"
        THEN IF IsRoot(i) THEN fail(RefuseDropRoot)
             ELSE IF ~InRange(es, i) THEN fail(NotFound(entity_ref))
             ELSE IF ~IsSome(Slot(es, i)) THEN fail(NotFound(entity_ref))
             ELSE LET c == DropChildren(doc, Unwrap(Slot(es, i)).children)
                  IN  IF c.res # Ok THEN c
                      ELSE LET es1 == c.doc.element_store
                               u == IF is_parent
                                    THEN Unlink(es1, Unwrap(Slot(es1, i)).parent, entity_ref)
                                    ELSE [es |-> es1, panic |-> FALSE]
                           IN  IF u.panic
                               THEN [doc |-> c.doc, res |-> Panic]
                               ELSE [doc |-> Document(NullSlot(u.es, i),
                                                      c.doc.text_store),
                                     res |-> Ok]
        ELSE IF ~InRange(ts, i) THEN fail(NotFound(entity_ref))
             ELSE IF ~IsSome(Slot(ts, i)) THEN fail(NotFound(entity_ref))
             ELSE LET u == IF is_parent
                           THEN Unlink(es, Unwrap(Slot(ts, i)).parent, entity_ref)
                           ELSE [es |-> es, panic |-> FALSE]
                  IN  IF u.panic
                      THEN [doc |-> doc, res |-> Panic]
                      ELSE [doc |-> Document(u.es, NullSlot(ts, i)), res |-> Ok]

\* Mutant of drop: an absent entity counts as dropped.
DropAbsentIsOk(doc, entity_ref) ==
    IF Live(IF entity_ref.tag = "Element" THEN doc.element_store ELSE doc.text_store,
            entity_ref.idx)
    THEN drop_impl(doc, entity_ref, TRUE)
    ELSE [doc |-> doc, res |-> Ok]

\* pub fn drop(&mut self, entity_ref)
drop(doc, entity_ref) == drop_impl(doc, entity_ref, TRUE)

\* ---------------------------------------------------------------- insert
\* enum PlacePosition
InsertFront == [kind |-> "InsertFront", n |-> 0]
InsertBack == [kind |-> "InsertBack", n |-> 0]
InsertFrontN(n) == [kind |-> "InsertFrontN", n |-> n]
InsertBackN(n) == [kind |-> "InsertBackN", n |-> n]
Replace(n) == [kind |-> "Replace", n |-> n]

\* enum InsertElementError (NotFound is shared with DropEntityError's shape)
ReplaceChildOutOfRange(n, entity_ref, last) ==
    [tag |-> "ReplaceChildOutOfRange", n |-> n, ref |-> entity_ref, last |-> last]
DropEntityError(n, entity_ref, e) ==
    [tag |-> "DropEntityError", n |-> n, ref |-> entity_ref, err |-> e]

\* The index insert stores in the EntityRef it places: the length of the
\* element store read after the push.
NewElementNum(es_after_push) == Len(es_after_push)

\* `children.len() - 1` on usize: with overflow checks an empty list panics,
\* without them the subtraction wraps to usize::MAX.
LenMinusOne(children, checks) ==
    IF Len(children) > 0 THEN [panic |-> FALSE, v |-> Len(children) - 1]
    ELSE IF checks THEN [panic |-> TRUE, v |-> 0]
    ELSE [panic |-> FALSE, v |-> UsizeMax]

\* pub fn insert(&mut self, parent_id, place_position, prefix, local,
\* attributes): the document it leaves and what it returns.
insert(doc, parent_id, place_position, prefix, local, attributes, checks) ==
    LET es == Append(doc.element_store,
                     Some(Element(parent_id, <<>>, prefix, local, attributes)))
        pushed == Document(es, doc.text_store)
        element_num == NewElementNum(es)
        new_ref == ElementRef(element_num)
        n == place_position.n
        panicked == [doc |-> pushed, res |-> Panic]
        place(children) ==
            [doc |-> Document(SetSlot(es, parent_id,
                                      Some([Unwrap(Slot(es, parent_id))
                                              EXCEPT !.children = children])),
                              doc.text_store),
             res |-> Ok]
    IN  IF ~InRange(es, parent_id) THEN panicked
        ELSE IF ~IsSome(Slot(es, parent_id))
        THEN [doc |-> pushed, res |-> NotFound(ElementRef(parent_id))]
        ELSE
        LET children == Unwrap(Slot(es, parent_id)).children
            parent_end == LenMinusOne(children, checks)
        IN  IF parent_end.panic THEN panicked
            ELSE CASE place_position.kind = "InsertFront" -> place(<<new_ref>> \o children)
                   [] place_position.kind = "InsertBack" -> place(Append(children, new_ref))
                   [] place_position.kind = "InsertFrontN" ->
                        LET index == Min(n, parent_end.v)
                        IN  IF index > Len(children) THEN panicked
                            ELSE place(InsertAt(children, index, new_ref))
                   [] place_position.kind = "InsertBackN" ->
                        LET index == SaturatingSub(parent_end.v, n)
                        IN  IF index > Len(children) THEN panicked
                            ELSE place(InsertAt(children, index, new_ref))
                   [] place_position.kind = "Replace" ->
                        IF n > parent_end.v
                        THEN [doc |-> pushed,
                              res |-> ReplaceChildOutOfRange(n, ElementRef(parent_id),
                                                             parent_end.v)]
                        ELSE IF n >= Len(children) THEN panicked
                        ELSE LET d == drop(pushed, children[n + 1])
                             IN  IF d.res = Ok \/ d.res = Panic THEN d
                                 ELSE [doc |-> d.doc,
                                       res |-> DropEntityError(n, ElementRef(parent_id),
                                                               d.res)]

\* ---------------------------------------------------------------- into_string
RECURSIVE Tabs(_)
\* `for _ in 0..tab_level { res += "\t" }`
Tabs(tab_level) == IF tab_level = 0 THEN "" ELSE "\t" \o Tabs(tab_level - 1)

RECURSIVE AttributesString(_)
\* The same with `=""` written for a modifier
AttributesString_EmptyValue(attributes) ==
    IF attributes = <<>> THEN ""
    ELSE LET attr == Head(attributes)
         IN  " " \o gen_full_name(attr.prefix, attr.local)
             \o "=\"" \o (IF IsSome(attr.value) THEN Unwrap(attr.value) ELSE "") \o "\""
             \o AttributesString(Tail(attributes))
\* `for attr in &element.attributes { ... }`
AttributesString(attributes) ==
    IF attributes = <<>> THEN ""
    ELSE LET attr == Head(attributes)
         IN  " " \o gen_full_name(attr.prefix, attr.local)
             \o (IF IsSome(attr.value) THEN "=\"" \o Unwrap(attr.value) \o "\"" ELSE "")
             \o AttributesString(Tail(attributes))

RECURSIVE elem_into_string(_, _, _)
RECURSIVE ChildrenString(_, _, _)

\* `for entity_ref in &element.children { ... }` at tab_level + 1
ChildrenString(doc, children, tab_level) ==
    IF children = <<>> THEN [panic |-> FALSE, out |-> ""]
    ELSE LET entity_ref == Head(children)
             one == IF entity_ref.tag = "Element"
                    THEN elem_into_string(doc, entity_ref.idx, tab_level + 1)
                    ELSE IF ~Live(doc.text_store, entity_ref.idx)
                         THEN [panic |-> TRUE, out |-> ""]
                         ELSE [panic |-> FALSE,
                               out |-> Tabs(tab_level + 1)
                                       \o Unwrap(Slot(doc.text_store, entity_ref.idx)).content
                                       \o "\n"]
         IN  IF one.panic THEN one
             ELSE LET rest == ChildrenString(doc, Tail(children), tab_level)
                  IN  [panic |-> rest.panic, out |-> one.out \o rest.out]

\* fn elem_into_string(&self, root, tab_level): the string, or a panic when
\* element_store[root] is out of range or None (index / unwrap).
elem_into_string(doc, root, tab_level) ==
    IF ~Live(doc.element_store, root) THEN [panic |-> TRUE, out |-> ""]
    ELSE LET element == Unwrap(Slot(doc.element_store, root))
             full_name == gen_full_name(element.prefix, element.local)
             head == Tabs(tab_level) \o "<" \o full_name
                     \o AttributesString(element.attributes)
         IN  IF element.children = <<>>
             THEN [panic |-> FALSE, out |-> head \o " />\n"]
             ELSE LET body == ChildrenString(doc, element.children, tab_level)
                  IN  [panic |-> body.panic,
                       out |-> head \o ">\n" \o body.out
                               \o Tabs(tab_level) \o "</" \o full_name \o ">\n"]

\* pub fn into_string(&self)
into_string(doc) == elem_into_string(doc, 0, 0)

\* ---------------------------------------------------------------- calls
Doc == Document(element_store, text_store)

PlacePositions ==
    {InsertFront, InsertBack}
    \cup { InsertFrontN(n) : n \in 0..MaxN }
    \cup { InsertBackN(n) : n \in 0..MaxN }
    \cup { Replace(n) : n \in 0..MaxN }

\* The attribute lists handed to insert.
AttributeLists == { <<>>, <<Attribute("", "k", Some("v"))>> }
\* The name handed to insert.
InsertNames == { [prefix |-> "", local |-> "n"] }

\* A call of Document::insert on the document; parent_id ranges over the
\* live and dead slots, the index of the slot the call appends, and one past.
Insert ==
    /\ pc = "ready"
    /\ Len(element_store) < MaxElements
    /\ \E parent_id \in 0..(Len(element_store) + 1), place_position \in PlacePositions,
          q \in InsertNames, attributes \in AttributeLists :
         LET r == insert(Doc, parent_id, place_position, q.prefix, q.local, attributes,
                         overflow_checks)
         IN  /\ element_store' = r.doc.element_store
             /\ text_store' = r.doc.text_store
             /\ ret' = r.res
             /\ pc' = IF r.res = Panic THEN "panicked" ELSE "ready"
             /\ call' = [op |-> "insert", parent_id |-> parent_id,
                         place_position |-> place_position, prefix |-> q.prefix,
                         local |-> q.local, attributes |-> attributes]
    /\ pre' = Doc
    /\ UNCHANGED <<hierarchy, state, depth, overflow_checks, stream, fragment_parsing,
                   emitted>>

\* A call of Document::drop on the document, for every reference up to one
\* past the end of each store.
Drop ==
    /\ pc = "ready"
    /\ \E entity_ref \in { ElementRef(i) : i \in 0..Len(element_store) }
                         \cup { TextRef(i) : i \in 0..Len(text_store) } :
         LET r == drop(Doc, entity_ref)
         IN  /\ element_store' = r.doc.element_store
             /\ text_store' = r.doc.text_store
             /\ ret' = r.res
             /\ pc' = IF r.res = Panic THEN "panicked" ELSE "ready"
             /\ call' = [op |-> "drop", entity_ref |-> entity_ref]
    /\ pre' = Doc
    /\ UNCHANGED <<hierarchy, state, depth, overflow_checks, stream, fragment_parsing,
                   emitted>>

Init ==
    /\ element_store = <<>>
    /\ text_store = <<>>
    /\ hierarchy = <<>>
    /\ state = "Root"
    /\ depth = 0
    /\ pc = "new"
    /\ call = [op |-> "new"]
    /\ ret = Pending
    /\ pre = Document(<<>>, <<>>)
    /\ overflow_checks \in BOOLEAN
    /\ stream = Stream(<<>>, 0, 0)
    /\ fragment_parsing = FALSE
    /\ emitted = <<>>

Next ==
    \/ NewStart
    \/ NewLoop
    \/ Insert
    \/ Drop

Spec == Init /\ [][Next]_vars


\* The texts a tokenizer is made over: up to MaxPieces lexical pieces in a row.
Pieces ==
    { <<"<", "p">>, <<"<", "/", "p">>, <<">">>, <<"/", ">">>, <<" ">>, <<"t">>,
      <<"/", "*">>, <<"*", "/">>, <<"/">>, <<"<">>, <<" ", "k", "=", "'", "v", "'">>,
      <<NonXmlChar>>, <<"<", "p", ">">>, <<"<", "/", "p", ">">>, BOM,
      <<" ", "a", " ", " ">> }

\* The text made of the pieces ps, in order
RECURSIVE Concat(_)
Concat(ps) == IF ps = <<>> THEN <<>> ELSE Head(ps) \o Concat(Tail(ps))

TheTokenizer == Tokenizer(stream, state, depth, fragment_parsing)

\* A call of Tokenizer::next; ret is the Option it returns. When the call
\* never returns, pc becomes "hung", the tokenizer is left as the loop holds
\* it, ret stays None and nothing is called again.
IteratorNext ==
    /\ pc = "tokenizing"
    /\ \E o \in {next(TheTokenizer)} :
       LET hangs == IsSome(o.t) /\ Unwrap(o.t).kind = "NeverReturns"
       IN  /\ stream' = o.tk.stream
           /\ state' = o.tk.state
           /\ depth' = o.tk.depth
           /\ pc' = IF hangs THEN "hung" ELSE "tokenizing"
           /\ ret' = IF hangs THEN None ELSE o.t
           /\ emitted' = IF IsSome(o.t) /\ ~hangs THEN Append(emitted, Unwrap(o.t))
                         ELSE emitted
    /\ call' = [op |-> "next"]
    /\ pre' = TheTokenizer
    /\ UNCHANGED <<element_store, text_store, hierarchy, overflow_checks, fragment_parsing>>

\* A tokenizer made by Tokenizer::from(text) or by
\* Tokenizer::from_fragment(text, 0..text.len()), before its first poll.
InitTok ==
    /\ \E n \in 0..MaxPieces : \E ps \in [1..n -> Pieces] :
         \E tk \in {From(Concat(ps)), from_fragment(Concat(ps), <<0, Len(Concat(ps))>>)} :
            /\ stream = tk.stream
            /\ state = tk.state
            /\ depth = tk.depth
            /\ fragment_parsing = tk.fragment_parsing
            /\ pre = tk
    /\ pc = "tokenizing"
    /\ call = [op |-> "from"]
    /\ ret = None
    /\ emitted = <<>>
    /\ element_store = <<>>
    /\ text_store = <<>>
    /\ hierarchy = <<>>
    /\ overflow_checks = FALSE

NextTok == IteratorNext

SpecTok == InitTok /\ [][NextTok]_vars

\* ------------------------------------------------ Document::new on a text
\* StrSpan::as_str: the characters of a span as a str
RECURSIVE as_str(_)
as_str(cs) == IF cs = <<>> THEN "" ELSE Head(cs) \o as_str(Tail(cs))
\* The characters of a str, as the tokenizer's text
Chars(str) == [i \in 1..Len(str) |-> SubSeq(str, i, i)]

\* TextPos of a byte offset: 1-based row and column, rows counted by `\n`
TextPos(text, offset) ==
    LET breaks == { q \in 1..offset : text[q] = "\n" }
        line_start == IF breaks = {} THEN 0 ELSE CHOOSE q \in breaks : \A r \in breaks : r <= q
    IN  [row |-> Cardinality(breaks) + 1, col |-> offset - line_start + 1]
\* fn span_text_range(text, span)
span_text_range(text, span) ==
    [start |-> TextPos(text, span[1]), end |-> TextPos(text, span[2])]

\* The item Tokenizer::next gave, as Document::new reads it: the strings of
\* its spans (prefix.as_str(), local.as_str(), value.as_str(), text.as_str()).
StrToken(item) ==
    IF item = None THEN NoneToken
    ELSE IF Unwrap(item).kind = "Err" THEN ErrToken
    ELSE IF Unwrap(item).kind = "NeverReturns" THEN Token("NeverReturns", "", "", "", "")
    ELSE Token(Unwrap(item).kind, Unwrap(item).end, as_str(Unwrap(item).prefix),
               as_str(Unwrap(item).local), as_str(Unwrap(item).text))

\* DocumentParseError::SyntaxError(e), e the tokenizer's error
SyntaxErrorOf(e) == [tag |-> "SyntaxError", error |-> e]
\* The error with the TextRange `r(source, span)` it carries
Located(e, range) ==
    CASE e.tag = "InvalidRootElement" -> [tag |-> "InvalidRootElement", range |-> range]
      [] e.tag = "InvalidTreeStructure" ->
           [tag |-> "InvalidTreeStructure", closed_elem |-> e.closed_elem,
            current_open_elem |-> e.current_open_elem, location |-> range]
      [] OTHER -> e

\* What the tokenizer is left as, and the items it has given
Polled(o) ==
    /\ stream' = o.tk.stream
    /\ state' = o.tk.state
    /\ depth' = o.tk.depth
    /\ emitted' = IF IsSome(o.t) /\ Unwrap(o.t).kind # "NeverReturns"
                  THEN Append(emitted, Unwrap(o.t)) ELSE emitted

\* Document::new(source) from the first poll of the tokenizer up to the
\* construction of the stores.
NewStartText ==
    /\ pc = "new"
    /\ \E o \in {next(TheTokenizer)} : \E first_token \in {StrToken(o.t)} :
         /\ Polled(o)
         /\ IF first_token.kind = "NeverReturns"
            THEN /\ pc' = "hung"
                 /\ ret' = Pending
                 /\ UNCHANGED <<hierarchy, text_store, element_store>>
            ELSE \E v \in {validate_document_start(first_token)} :
                 IF v = ParseOk
                 THEN /\ pc' = "loop"
                      /\ hierarchy' = <<0>>
                      /\ text_store' = <<>>
                      /\ element_store' = <<Some(Element(0, <<>>, "", "document", <<>>))>>
                      /\ ret' = Pending
                 ELSE /\ pc' = "failed"
                      /\ ret' = IF v = SyntaxError THEN SyntaxErrorOf(Unwrap(o.t))
                                ELSE IF v = InvalidRootElement
                                THEN Located(v, span_text_range(stream.text, Unwrap(o.t).span))
                                ELSE v
                      /\ UNCHANGED <<hierarchy, text_store, element_store>>
    /\ UNCHANGED <<call, pre, overflow_checks, fragment_parsing>>

\* One turn of `for token in tokenizer` of Document::new(source)
NewLoopText ==
    /\ pc = "loop"
    /\ \E o \in {next(TheTokenizer)} : \E token \in {StrToken(o.t)} :
         /\ Polled(o)
         /\ CASE token.kind = "NeverReturns" ->
                   /\ pc' = "hung"
                   /\ ret' = Pending
                   /\ UNCHANGED <<element_store, text_store, hierarchy>>
              [] token.kind = "None" ->
                   /\ pc' = "ready"
                   /\ ret' = ParseOk
                   /\ UNCHANGED <<element_store, text_store, hierarchy>>
              [] token.kind = "Err" ->
                   /\ pc' = "failed"
                   /\ ret' = SyntaxErrorOf(Unwrap(o.t))
                   /\ UNCHANGED <<element_store, text_store, hierarchy>>
              [] token.kind \notin {"NeverReturns", "None", "Err"} /\ hierarchy = <<>> ->
                   \* hierarchy.last().unwrap() on the empty stack
                   /\ pc' = "panicked"
                   /\ ret' = Panic
                   /\ UNCHANGED <<element_store, text_store, hierarchy>>
              [] OTHER ->
                   \E b \in {NewLoopBody(token, hierarchy[Len(hierarchy)])} :
                   /\ element_store' = b.es
                   /\ text_store' = b.ts
                   /\ hierarchy' = b.h
                   /\ ret' = Located(b.r, span_text_range(stream.text, Unwrap(o.t).span))
                   /\ pc' = IF b.r = Pending THEN "loop" ELSE "failed"
    /\ UNCHANGED <<call, pre, overflow_checks, fragment_parsing>>

\* Document::into_string on the Document that Document::new returned
IntoString ==
    /\ pc = "ready"
    /\ ret' = into_string(Doc)
    /\ pc' = "rendered"
    /\ call' = [op |-> "into_string", round |-> call.round]
    /\ UNCHANGED <<element_store, text_store, hierarchy, state, depth, pre, overflow_checks,
                   stream, fragment_parsing, emitted>>

\* Document::new(x) for the text x that into_string returned, up to its
\* Tokenizer::from(x); pre keeps x.
NewRendered ==
    /\ pc = "rendered"
    /\ call.round < MaxRounds
    /\ ~ret.panic
    /\ \E tk \in {From(Chars(ret.out))} :
         /\ stream' = tk.stream
         /\ state' = tk.state
         /\ depth' = tk.depth
         /\ fragment_parsing' = tk.fragment_parsing
    /\ pc' = "new"
    /\ call' = [op |-> "new", round |-> call.round + 1]
    /\ pre' = Some(ret.out)
    /\ ret' = Pending
    /\ emitted' = <<>>
    /\ element_store' = <<>>
    /\ text_store' = <<>>
    /\ hierarchy' = <<>>
    /\ UNCHANGED overflow_checks

\* The source texts: up to MaxDocPieces of these in a row.
DocPieces ==
    { Chars(str) : str \in { "<document", "<document>", "</document>", ">", "/>", "<p",
                             "<p>", "</p>", "<p:document", "t", " ", "/**/", " m",
                             " k='v'", " k='\"'" } }

\* Document::new(source) after its Tokenizer::from(source)
InitDoc ==
    /\ \E n \in 0..MaxDocPieces : \E ps \in [1..n -> DocPieces] :
         \E tk \in {From(Concat(ps))} :
            /\ stream = tk.stream
            /\ state = tk.state
            /\ depth = tk.depth
            /\ fragment_parsing = tk.fragment_parsing
    /\ pc = "new"
    /\ call = [op |-> "new", round |-> 0]
    /\ ret = Pending
    /\ pre = None
    /\ emitted = <<>>
    /\ element_store = <<>>
    /\ text_store = <<>>
    /\ hierarchy = <<>>
    /\ overflow_checks = FALSE

NextDoc == NewStartText \/ NewLoopText \/ IntoString \/ NewRendered

SpecDoc == InitDoc /\ [][NextDoc]_vars



\* ------------------------------------------------ Display for Tokenizer
\* A tokenizer that is formatted is made over at most this many pieces.
MaxFmtPieces == 3

\* usize arithmetic of fmt: with overflow checks a result out of range
\* panics, without them it wraps.
\* `indent_level -= 1`
SubOne(v, checks) ==
    IF v > 0 THEN [panic |-> FALSE, v |-> v - 1]
    ELSE IF checks THEN [panic |-> TRUE, v |-> 0]
    ELSE [panic |-> FALSE, v |-> UsizeMax]
\* `indent_level += 1`
AddOne(v, checks) ==
    IF v < UsizeMax THEN [panic |-> FALSE, v |-> v + 1]
    ELSE IF checks THEN [panic |-> TRUE, v |-> 0]
    ELSE [panic |-> FALSE, v |-> 0]
\* `indent_level * 4`
TimesFour(v, checks) ==
    IF v <= UsizeMax \div 4 THEN [panic |-> FALSE, v |-> v * 4]
    ELSE IF checks THEN [panic |-> TRUE, v |-> 0]
    ELSE [panic |-> FALSE, v |-> (v % ((UsizeMax \div 4) + 1)) * 4]

\* The character each arm of fmt writes after the padding
Mark(token) ==
    CASE token.kind = "Comment" -> "*"
      [] token.kind = "ElementStart" -> "<"
      [] token.kind = "ElementEnd" -> ">"
      [] token.kind = "Attribute" -> "-"
      [] token.kind = "Modifier" -> "+"
      [] OTHER -> "\""

\* What fmt has done so far: the lines written, each with the width of its
\* padding, and how it ended ("Ok": returned Ok(()); "panic"; "never").
FmtResult(exit, lines) == [exit |-> exit, lines |-> lines]
\* writeln!(f, "{:indent$}...", "", .., indent = indent_level * 4)
Line(width, token) == [indent |-> width, mark |-> Mark(token), kind |-> token.kind]

RECURSIVE FmtWhile(_, _, _, _)
\* The arm of `match token`, then the loop again. this is the clone after
\* the call of next that returned token.
FmtToken(this, token, indent_level, lines, checks) ==
    IF token.kind = "ElementEnd"
    THEN LET lower == SubOne(indent_level, checks)
             width == TimesFour(lower.v, checks)
             upper == IF token.end = "Open" THEN AddOne(lower.v, checks)
                      ELSE [panic |-> FALSE, v |-> lower.v]
         IN  IF lower.panic THEN FmtResult("panic", lines)
             ELSE IF width.panic THEN FmtResult("panic", lines)
             ELSE IF upper.panic THEN FmtResult("panic", Append(lines, Line(width.v, token)))
             ELSE FmtWhile(this, upper.v, Append(lines, Line(width.v, token)), checks)
    ELSE LET width == TimesFour(indent_level, checks)
             upper == IF token.kind = "ElementStart" THEN AddOne(indent_level, checks)
                      ELSE [panic |-> FALSE, v |-> indent_level]
         IN  IF width.panic THEN FmtResult("panic", lines)
             ELSE IF upper.panic THEN FmtResult("panic", Append(lines, Line(width.v, token)))
             ELSE FmtWhile(this, upper.v, Append(lines, Line(width.v, token)), checks)
\* `while let Some(Ok(token)) = this.next()` on what next returned
FmtPolled(o, indent_level, lines, checks) ==
    IF ~IsSome(o.t) THEN FmtResult("Ok", lines)
    ELSE IF Unwrap(o.t).kind = "NeverReturns" THEN FmtResult("never", lines)
    ELSE IF IsErr(Unwrap(o.t)) THEN FmtResult("Ok", lines)
    ELSE FmtToken(o.tk, Unwrap(o.t), indent_level, lines, checks)
FmtWhile(this, indent_level, lines, checks) ==
    FmtPolled(next(this), indent_level, lines, checks)

\* <Tokenizer as Display>::fmt: `this = self.clone()`, `indent_level = 0`
fmt(self, checks) == FmtWhile(self, 0, <<>>, checks)

\* format!("{}", tokenizer) on the tokenizer as it stands; the tokenizer is
\* borrowed immutably and only the clone is polled.
Fmt ==
    /\ pc = "tokenizing"
    /\ \E r \in {fmt(TheTokenizer, overflow_checks)} :
         /\ ret' = r
         /\ pc' = CASE r.exit = "panic" -> "panicked"
                    [] r.exit = "never" -> "hung"
                    [] OTHER -> "tokenizing"
    /\ call' = [op |-> "fmt"]
    /\ pre' = TheTokenizer
    /\ UNCHANGED <<stream, state, depth, fragment_parsing, emitted, element_store,
                   text_store, hierarchy, overflow_checks>>

\* A tokenizer made by Tokenizer::from or Tokenizer::from_fragment over a
\* text of up to MaxFmtPieces pieces, in a build with or without overflow checks.
InitFmt ==
    /\ \E n \in 0..MaxFmtPieces : \E ps \in [1..n -> Pieces] :
         \E tk \in {From(Concat(ps)), from_fragment(Concat(ps), <<0, Len(Concat(ps))>>)} :
            /\ stream = tk.stream
            /\ state = tk.state
            /\ depth = tk.depth
            /\ fragment_parsing = tk.fragment_parsing
            /\ pre = tk
    /\ pc = "tokenizing"
    /\ call = [op |-> "from"]
    /\ ret = None
    /\ emitted = <<>>
    /\ element_store = <<>>
    /\ text_store = <<>>
    /\ hierarchy = <<>>
    /\ overflow_checks \in BOOLEAN

NextFmt == IteratorNext \/ Fmt

SpecFmt == InitFmt /\ [][NextFmt]_vars


\* ---------------------------------------------------------------- properties
\* How often entity_ref occurs in a children sequence.
Occurrences(children, entity_ref) ==
    Cardinality({ j \in 1..Len(children) : children[j] = entity_ref })

\* The slot a reference designates is in range and Some.
RefLive(doc, entity_ref) ==
    IF entity_ref.tag = "Element" THEN Live(doc.element_store, entity_ref.idx)
    ELSE Live(doc.text_store, entity_ref.idx)

\* children of a live element
ChildrenOf(doc, i) == Unwrap(Slot(doc.element_store, i)).children

RECURSIVE Subtree(_, _)
\* The references reachable from entity_ref through children, itself included.
Subtree(doc, entity_ref) ==
    IF entity_ref.tag = "Element" /\ Live(doc.element_store, entity_ref.idx)
    THEN {entity_ref}
         \cup UNION { Subtree(doc, ChildrenOf(doc, entity_ref.idx)[j])
                        : j \in 1..Len(ChildrenOf(doc, entity_ref.idx)) }
    ELSE {entity_ref}

\* The last call was an insert, and it has returned or panicked.
InsertCalled == pc \in {"ready", "panicked"} /\ call.op = "insert"
\* The index of the element an insert appends: the store length before it.
NewIndex == Len(pre.element_store)
\* The parent of the last insert was a live element when the call was made.
ParentWasLive == Live(pre.element_store, call.parent_id)
\* Its children at that moment.
ParentChildrenBefore == ChildrenOf(pre, call.parent_id)

\* Tree consistency of a document (spec section 3, invariants).
TreeConsistent(doc) ==
    /\ \A i \in 1..(Len(doc.element_store) - 1) :
         Live(doc.element_store, i) =>
           LET e == Unwrap(Slot(doc.element_store, i)) IN
           /\ Live(doc.element_store, e.parent)
           /\ Occurrences(ChildrenOf(doc, e.parent), ElementRef(i)) = 1
    /\ \A j \in 0..(Len(doc.text_store) - 1) :
         Live(doc.text_store, j) =>
           LET t == Unwrap(Slot(doc.text_store, j)) IN
           /\ Live(doc.element_store, t.parent)
           /\ Occurrences(ChildrenOf(doc, t.parent), TextRef(j)) = 1

\* No live element holds a reference to an absent or out-of-range slot.
NoDanglingRef(doc) ==
    \A i \in 0..(Len(doc.element_store) - 1) :
      Live(doc.element_store, i) =>
        \A j \in 1..Len(ChildrenOf(doc, i)) : RefLive(doc, ChildrenOf(doc, i)[j])

\* C1: after any sequence of insert and drop calls on a parsed Document every
\* live element i > 0 and every live text has a live parent whose children
\* hold its reference exactly once.
C1_TreeConsistency == pc = "ready" => TreeConsistent(Doc)

\* C2: in every state reached from a parsed Document by insert and drop, each
\* EntityRef in the children of a live element designates an in-range live
\* slot, and into_string does not reach an absent or out-of-range slot.
C2_NoDanglingIndex ==
    pc = "ready" => NoDanglingRef(Doc) /\ ~into_string(Doc).panic

\* C3: a successful insert appends exactly one element; the reference placed
\* in the parent's children is Element(k), k the store length before the
\* call, and elements[k] has parent = parent_id and the given prefix, local
\* and attributes.
C3_InsertPlacesNewIndex ==
    (InsertCalled /\ ret = Ok) =>
        /\ Len(element_store) = NewIndex + 1
        /\ Slot(element_store, NewIndex)
             = Some(Element(call.parent_id, <<>>, call.prefix, call.local, call.attributes))
        /\ Live(element_store, call.parent_id)
        /\ Occurrences(ChildrenOf(Doc, call.parent_id), ElementRef(NewIndex)) = 1

\* C4: InsertBack or InsertFront into a live parent with no children returns
\* Ok without panicking; the parent then has exactly one child, which
\* into_string renders as a self-closing element.
C4_InsertIntoEmptyParent ==
    (/\ InsertCalled
     /\ call.place_position.kind \in {"InsertFront", "InsertBack"}
     /\ ParentWasLive
     /\ ParentChildrenBefore = <<>>) =>
        /\ ret = Ok
        /\ Len(ChildrenOf(Doc, call.parent_id)) = 1
        /\ ChildrenOf(Doc, call.parent_id)[1].tag = "Element"
        /\ elem_into_string(Doc, ChildrenOf(Doc, call.parent_id)[1].idx, 1)
             = [panic |-> FALSE,
                out |-> "\t<" \o gen_full_name(call.prefix, call.local)
                        \o AttributesString(call.attributes) \o " />\n"]

\* Every element slot that existed before the last call, the parent's
\* excepted, is what it was.
OtherElementsUnchanged ==
    \A i \in 0..(Len(pre.element_store) - 1) :
      i # call.parent_id => Slot(element_store, i) = Slot(pre.element_store, i)

\* C5: for a live parent with children S, InsertFront yields [new] ++ S and
\* InsertBack yields S ++ [new]; no other element's children change.
C5_InsertFrontBack ==
    (/\ InsertCalled
     /\ call.place_position.kind \in {"InsertFront", "InsertBack"}
     /\ ParentWasLive) =>
        /\ ret = Ok
        /\ ChildrenOf(Doc, call.parent_id)
             = IF call.place_position.kind = "InsertFront"
               THEN <<ElementRef(NewIndex)>> \o ParentChildrenBefore
               ELSE Append(ParentChildrenBefore, ElementRef(NewIndex))
        /\ OtherElementsUnchanged

\* C6: for a live parent with L children InsertFrontN(n) places the new child
\* at index min(n, L-1) and InsertBackN(n) at index max(0, (L-1) - n),
\* shifting the later children right by one; the call does not panic.
C6_InsertAtN ==
    (/\ InsertCalled
     /\ call.place_position.kind \in {"InsertFrontN", "InsertBackN"}
     /\ ParentWasLive) =>
        LET L == Len(ParentChildrenBefore)
            n == call.place_position.n
            index == IF call.place_position.kind = "InsertFrontN"
                     THEN Min(n, L - 1)
                     ELSE IF (L - 1) - n > 0 THEN (L - 1) - n ELSE 0
        IN  /\ ret = Ok
            /\ L >= 1 => ChildrenOf(Doc, call.parent_id)
                           = InsertAt(ParentChildrenBefore, index, ElementRef(NewIndex))

\* C7: for a live parent with L children and n <= L-1, Replace(n) drops the
\* entity at children[n] with its whole subtree; afterwards children[n] is
\* the reference of the new element and the parent still has L children.
C7_ReplaceInPlace ==
    (/\ InsertCalled
     /\ call.place_position.kind = "Replace"
     /\ ParentWasLive
     /\ call.place_position.n <= Len(ParentChildrenBefore) - 1) =>
        LET n == call.place_position.n
            old == ParentChildrenBefore[n + 1]
        IN  /\ ret = Ok
            /\ \A r \in Subtree(pre, old) : r # ElementRef(NewIndex) => ~RefLive(Doc, r)
            /\ Len(ChildrenOf(Doc, call.parent_id)) = Len(ParentChildrenBefore)
            /\ ChildrenOf(Doc, call.parent_id)[n + 1] = ElementRef(NewIndex)

\* C8: Replace(n) on a live parent with L children fails with
\* ReplaceChildOutOfRange(n, Element(parent_id), L-1) whenever n > L-1, for
\* every L, a parent with no children included, and never panics.
C8_ReplaceOutOfRange ==
    (/\ InsertCalled
     /\ call.place_position.kind = "Replace"
     /\ ParentWasLive
     /\ call.place_position.n > Len(ParentChildrenBefore) - 1) =>
        /\ ret.tag = "ReplaceChildOutOfRange"
        /\ ret.n = call.place_position.n
        /\ ret.ref = ElementRef(call.parent_id)
        /\ Len(ParentChildrenBefore) >= 1 => ret.last = Len(ParentChildrenBefore) - 1

\* C9: insert returns NotFound(Element(parent_id)) whenever parent_id does
\* not designate a live element before the call, be the slot nulled or the
\* index at or beyond the end of the store; it never panics.
C9_InsertParentNotFound ==
    (InsertCalled /\ ~ParentWasLive) => ret = NotFound(ElementRef(call.parent_id))

\* C10: when insert returns NotFound or ReplaceChildOutOfRange the document
\* is unchanged: both stores have the length and contents they had.
C10_InsertErrorLeavesDocument ==
    (InsertCalled /\ ret.tag \in {"NotFound", "ReplaceChildOutOfRange"}) => Doc = pre


\* The last call was a drop, and it has returned or panicked.
DropCalled == pc \in {"ready", "panicked"} /\ call.op = "drop"

\* C11: when drop returns RefuseDropRoot or NotFound the document is
\* unchanged; no sibling or descendant dropped earlier in the call stays
\* nulled.
C11_DropErrorLeavesDocument ==
    (DropCalled /\ ret.tag \in {"RefuseDropRoot", "NotFound"}) => Doc = pre

\* C12: drop(Element(0)) returns RefuseDropRoot in every reachable state and
\* leaves both stores unchanged, so the document renders as before.
C12_RefuseDropRoot ==
    (DropCalled /\ call.entity_ref = ElementRef(0)) =>
        /\ ret = RefuseDropRoot
        /\ element_store = pre.element_store
        /\ text_store = pre.text_store
        /\ into_string(Doc) = into_string(pre)

\* Witness of C12: the root of a document with children was refused.
C12_Witness ==
    /\ DropCalled
    /\ call.entity_ref = ElementRef(0)
    /\ ret = RefuseDropRoot
    /\ Len(ChildrenOf(pre, 0)) >= 2

\* C13: elements[0] is live in every state reached from a parsed Document by
\* insert and drop calls.
C13_RootAlwaysLive == pc = "ready" => Live(element_store, 0)

\* Witness of C13: a child of the root was dropped together with a
\* descendant, and the root is live.
C13_Witness ==
    /\ pc = "ready"
    /\ call.op = "drop"
    /\ ret = Ok
    /\ call.entity_ref \in { ChildrenOf(pre, 0)[j] : j \in 1..Len(ChildrenOf(pre, 0)) }
    /\ Cardinality(Subtree(pre, call.entity_ref)) >= 2
    /\ Live(element_store, 0)

\* The parent field of the entity a reference designated in doc.
ParentOf(doc, entity_ref) ==
    IF entity_ref.tag = "Element"
    THEN Unwrap(Slot(doc.element_store, entity_ref.idx)).parent
    ELSE Unwrap(Slot(doc.text_store, entity_ref.idx)).parent

\* C14: after a successful drop(e) the slot of e and the slots of all its
\* transitive descendants are None, and the children of e's parent hold no
\* reference to e.
C14_DropNullsSubtree ==
    (DropCalled /\ ret = Ok) =>
        /\ RefLive(pre, call.entity_ref)
        /\ call.entity_ref # ElementRef(0)
        /\ \A r \in Subtree(pre, call.entity_ref) :
             /\ IF r.tag = "Element" THEN InRange(element_store, r.idx)
                                     ELSE InRange(text_store, r.idx)
             /\ ~RefLive(Doc, r)
        /\ Live(element_store, ParentOf(pre, call.entity_ref)) =>
             Occurrences(ChildrenOf(Doc, ParentOf(pre, call.entity_ref)),
                         call.entity_ref) = 0

\* Witness of C14: an element with an element child and a grandchild was
\* dropped, and its parent lives on.
C14_Witness ==
    /\ DropCalled
    /\ ret = Ok
    /\ Cardinality(Subtree(pre, call.entity_ref)) >= 3
    /\ \E r \in Subtree(pre, call.entity_ref) :
         r.tag = "Element" /\ r # call.entity_ref /\ ChildrenOf(pre, r.idx) # <<>>
    /\ Live(element_store, ParentOf(pre, call.entity_ref))

\* C15: drop returns NotFound(ref) for a reference whose index is out of
\* range or whose slot is None, a second drop of the same entity included,
\* and changes nothing.
C15_DropNotFound ==
    (DropCalled /\ ~RefLive(pre, call.entity_ref)) =>
        ret = NotFound(call.entity_ref) /\ Doc = pre

\* Witness of C15: the slot was in range and already None (dropped before).
C15_Witness ==
    /\ DropCalled
    /\ call.entity_ref.tag = "Element"
    /\ InRange(pre.element_store, call.entity_ref.idx)
    /\ ~IsSome(Slot(pre.element_store, call.entity_ref.idx))
    /\ ret = NotFound(call.entity_ref)

\* Witness of C15, out of range: a text index at the end of the text store.
C15_WitnessOutOfRange ==
    /\ DropCalled
    /\ call.entity_ref.tag = "Text"
    /\ ~InRange(pre.text_store, call.entity_ref.idx)
    /\ ret = NotFound(call.entity_ref)

\* C16: indices are never reused: no step shortens a store, a slot that is
\* None stays None, and an insert puts its element at the end of the store,
\* leaving no earlier slot newly live.
C16_IndicesNeverReused ==
    [][/\ Len(element_store') >= Len(element_store)
       /\ Len(text_store') >= Len(text_store)
       /\ \A i \in 0..(Len(element_store) - 1) :
            ~IsSome(Slot(element_store, i)) => ~IsSome(Slot(element_store', i))
       /\ \A j \in 0..(Len(text_store) - 1) :
            ~IsSome(Slot(text_store, j)) => ~IsSome(Slot(text_store', j))
       /\ (pc = "ready" /\ call'.op = "insert") =>
            Len(element_store') = Len(element_store) + 1]_vars

\* Witness of C16: an insert was made while an earlier slot was None, and
\* that slot is still None.
C16_Witness ==
    /\ InsertCalled
    /\ \E i \in 0..(Len(pre.element_store) - 1) :
         ~IsSome(Slot(pre.element_store, i)) /\ ~IsSome(Slot(element_store, i))
    /\ Len(element_store) = Len(pre.element_store) + 1

\* The children left when every occurrence of entity_ref is taken out.
Without(children, entity_ref) ==
    LET keep(c) == c # entity_ref IN SelectSeq(children, keep)

\* C17: a successful drop(e) changes nothing outside e's subtree except that
\* the reference to e leaves its parent's children: every other slot keeps
\* its entity, and the parent's remaining children keep their order.
C17_DropFrame ==
    (DropCalled /\ ret = Ok) =>
        LET e == call.entity_ref
            S == Subtree(pre, e)
            p == ParentOf(pre, e)
        IN  /\ Len(element_store) = Len(pre.element_store)
            /\ Len(text_store) = Len(pre.text_store)
            /\ \A j \in 0..(Len(pre.text_store) - 1) :
                 TextRef(j) \notin S => Slot(text_store, j) = Slot(pre.text_store, j)
            /\ \A i \in 0..(Len(pre.element_store) - 1) :
                 ElementRef(i) \notin S =>
                   IF i = p
                   THEN Slot(element_store, i)
                          = Some([Unwrap(Slot(pre.element_store, i))
                                    EXCEPT !.children = Without(@, e)])
                   ELSE Slot(element_store, i) = Slot(pre.element_store, i)

\* Witness of C17: the dropped entity was not the first child of a parent
\* with several children, and had a descendant.
C17_Witness ==
    /\ DropCalled
    /\ ret = Ok
    /\ Live(pre.element_store, ParentOf(pre, call.entity_ref))
    /\ Len(ChildrenOf(pre, ParentOf(pre, call.entity_ref))) >= 2
    /\ ChildrenOf(pre, ParentOf(pre, call.entity_ref))[1] # call.entity_ref
    /\ Occurrences(ChildrenOf(pre, ParentOf(pre, call.entity_ref)), call.entity_ref) = 1
    /\ Cardinality(Subtree(pre, call.entity_ref)) >= 2

\* ---- tokenizer properties (SpecTok)
Next_Called == call.op = "next"
Errors == { i \in 1..Len(emitted) : IsErr(emitted[i]) }
Kinds == [i \in 1..Len(emitted) |-> emitted[i].kind]

\* C18: every call of Tokenizer::next returns, for every input text,
\* including character data that runs to the end of the text with no `<`
\* or `/*` after it (so repeated calls reach None).
C18_NextReturns == pc # "hung"

\* C19: once Tokenizer::next has returned an Err the tokenizer is in state
\* End with its stream at the end of input, the Err is the last item it
\* ever emits (so at most one error), and every later call returns None.
C19_ErrorEndsTokenizer ==
    /\ Cardinality(Errors) <= 1
    /\ Errors # {} =>
          /\ Errors = {Len(emitted)}
          /\ state = "End"
          /\ at_end(stream)
          /\ pc = "tokenizing"
          /\ (Next_Called /\ pre.state = "End" => ret = None)

\* C19 witness: after some tokens an Err was emitted, and a call made after
\* it has returned None.
C19_Witness ==
    /\ Errors # {}
    /\ Len(emitted) >= 2
    /\ Next_Called
    /\ pre.state = "End"
    /\ ret = None

SiblingsText == <<"<", "p", "/", ">", "<", "p", "/", ">">>
SiblingsKinds == <<"ElementStart", "ElementEnd", "ElementStart", "ElementEnd">>

\* C20: a tokenizer made by from_fragment starts in Elements at depth 0 and
\* is never in Root or AfterElements; a start tag met at depth 0 is emitted
\* as ElementStart whatever came before it, and `<p/><p/>` yields its two
\* elements' tokens and no error.
C20_FragmentSiblings ==
    fragment_parsing =>
        /\ state \notin {"Root", "AfterElements"}
        /\ (call.op = "from" => state = "Elements" /\ depth = 0)
        /\ (/\ Next_Called
            /\ pre.state = "Elements"
            /\ pre.depth = 0
            /\ starts_with(skip_spaces(pre.stream), <<"<", "p">>)
            => /\ pc = "tokenizing"
               /\ IsSome(ret)
               /\ Unwrap(ret).kind = "ElementStart")
        /\ (stream.text = SiblingsText =>
               /\ Errors = {}
               /\ Kinds = SubSeq(SiblingsKinds, 1, Len(emitted)))

\* C20 witness: `<p/><p/>` tokenized as a fragment, all four tokens out and
\* the second start tag met at depth 0 after the first element ended.
C20_Witness ==
    /\ fragment_parsing
    /\ stream.text = SiblingsText
    /\ Kinds = SiblingsKinds
    /\ depth = 0
    /\ at_end(stream)

\* The end of the run of characters of `set` that starts at offset `from`.
RunEnd(st, from, set) ==
    LET stops == { q \in from..st.end : q = st.end \/ st.text[q + 1] \notin set }
    IN  CHOOSE q \in stops : \A r \in stops : q <= r
Spaces == {" ", "\t", "\n", "\r"}
NameChars == Letters \cup Digits \cup {"_", "-", "."}
\* Where the call being looked at found the stream, after leading spaces
PreStart == RunEnd(pre.stream, pre.stream.pos, Spaces)
PreAt(i) == IF PreStart + i < pre.stream.end THEN pre.stream.text[PreStart + i + 1] ELSE ""
\* A lexically valid close tag at PreStart: `</`, an unprefixed name, spaces, `>`
CloseNameEnd == RunEnd(pre.stream, PreStart + 2, NameChars)
CloseTagEnd == RunEnd(pre.stream, CloseNameEnd, Spaces)
ValidCloseTag ==
    /\ PreAt(0) = "<"
    /\ PreAt(1) = "/"
    /\ PreAt(2) \in Letters
    /\ CloseTagEnd < pre.stream.end
    /\ pre.stream.text[CloseTagEnd + 1] = ">"

\* C21: the tokenizer does not match tags: in Elements state a lexically
\* valid close tag is emitted as ElementEnd::Close with its own name and
\* span, without error, whatever elements were opened before it.
C21_CloseTagNotMatched ==
    (Next_Called /\ pre.state = "Elements" /\ ValidCloseTag) =>
        /\ pc = "tokenizing"
        /\ ret = Some(SpanToken("ElementEnd", "Close", <<>>,
                                slice_region(pre.stream, PreStart + 2, CloseNameEnd), <<>>,
                                <<PreStart, CloseTagEnd + 1>>))

\* C21 witness: the close tag names another element than the one opened
\* last (`<pt></p>`), and was emitted as ElementEnd::Close.
C21_Witness ==
    /\ ~fragment_parsing
    /\ Len(emitted) = 3
    /\ emitted[1].kind = "ElementStart"
    /\ emitted[2].kind = "ElementEnd" /\ emitted[2].end = "Open"
    /\ emitted[3].kind = "ElementEnd" /\ emitted[3].end = "Close"
    /\ emitted[3].local # emitted[1].local
    /\ ret = Some(emitted[3])

IsOpen(t) == t.kind = "ElementEnd" /\ t.end = "Open"
IsClose(t) == t.kind = "ElementEnd" /\ t.end = "Close"
\* ElementEnd::Open tokens minus ElementEnd::Close tokens among the first i emitted
Balance(i) ==
    Cardinality({ j \in 1..i : IsOpen(emitted[j]) })
    - Cardinality({ j \in 1..i : IsClose(emitted[j]) })
\* The close tags that brought the balance to 0
Balancing == { i \in 1..Len(emitted) : IsClose(emitted[i]) /\ Balance(i) = 0 }
\* The balance is 0 at one close tag at most, above 0 between the first open
\* tag and it, and no open or close tag follows it.
BalancedOnce ==
    \A i \in Balancing :
        /\ \A j \in 1..(i - 1) : Balance(j) > 0 \/ (\A k \in 1..j : ~IsOpen(emitted[k]))
        /\ \A j \in (i + 1)..Len(emitted) : ~IsOpen(emitted[j]) /\ ~IsClose(emitted[j])

\* C26: in non-fragment mode depth is always the number of ElementEnd::Open
\* tokens emitted minus the number of ElementEnd::Close tokens emitted, it
\* is never negative, and it is back at 0 exactly at the close tag that
\* balances the root's open tag.
C26_DepthCountsOpenElements ==
    ~fragment_parsing =>
        /\ depth = Balance(Len(emitted))
        /\ depth >= 0
        /\ BalancedOnce

\* C26 as the code has it: the same while no Err has been returned; a close
\* tag that fails lexically has lowered depth before it was parsed, so after
\* its Err depth is one less than the balance.
C26_DepthCountsUntilError ==
    ~fragment_parsing =>
        /\ Errors = {} => depth = Balance(Len(emitted))
        /\ Errors # {} => depth \in {Balance(Len(emitted)), Balance(Len(emitted)) - 1}
        /\ depth >= 0
        /\ BalancedOnce

\* C26 witness: `<p><p></p></p>` tokenized to its end, depth back at 0 at
\* the second close tag.
C26_Witness ==
    /\ ~fragment_parsing
    /\ Len(emitted) = 6
    /\ Balancing = {6}
    /\ Balance(4) = 2
    /\ Balance(5) = 1
    /\ depth = 0
    /\ Errors = {}

\* The token at which the root element ended: the first `/>` or close tag
\* that leaves no element open.
RootEnd ==
    { i \in 1..Len(emitted) :
        /\ emitted[i].kind = "ElementEnd"
        /\ emitted[i].end \in {"Empty", "Close"}
        /\ Balance(i) = 0 }

\* C27: in non-fragment mode, once the root element has ended the tokenizer
\* is in AfterElements (End after an error); there it emits only Comment
\* tokens, skips whitespace, and answers anything else, a second element
\* included, with UnknownToken: no ElementStart, Attribute, Modifier, Text
\* or ElementEnd comes after the root's end.
C27_AfterRootOnlyComments ==
    ~fragment_parsing =>
        /\ \A i \in RootEnd : \A j \in (i + 1)..Len(emitted) :
              \/ emitted[j].kind = "Comment"
              \/ (IsErr(emitted[j]) /\ emitted[j].error \in {"UnknownToken", "InvalidComment"})
        /\ RootEnd # {} => /\ pc = "tokenizing"
                           /\ state = IF Errors = {} THEN "AfterElements" ELSE "End"
        /\ (Next_Called /\ pre.state = "AfterElements") =>
              /\ RootEnd # {}
              /\ PreAt(0) = "" => (ret = None /\ at_end(stream))
              /\ (PreAt(0) = "/" /\ PreAt(1) = "*") =>
                    /\ IsSome(ret)
                    /\ \/ Unwrap(ret).kind = "Comment"
                       \/ Unwrap(ret) = Error("InvalidComment", Unwrap(ret).cause)
              /\ (PreAt(0) # "" /\ ~(PreAt(0) = "/" /\ PreAt(1) = "*")) =>
                    ret = Some(Error("UnknownToken", ""))

\* C27 witness: a second element after a self-closing root (`<p/><p>`) was
\* answered with UnknownToken.
C27_Witness ==
    /\ ~fragment_parsing
    /\ RootEnd = {2}
    /\ Next_Called
    /\ pre.state = "AfterElements"
    /\ PreAt(0) = "<"
    /\ PreAt(1) = "p"
    /\ ret = Some(Error("UnknownToken", ""))

\* After the root's close tag and a space, a comment was emitted.
C27_WitnessComment ==
    /\ ~fragment_parsing
    /\ RootEnd # {}
    /\ Len(emitted) > 0
    /\ emitted[Len(emitted)].kind = "Comment"
    /\ \E i \in RootEnd : i < Len(emitted)

\* Character data at PreStart: the offset of the `<` or `/*` that ends it
\* (the end of the stream when there is none) and the end of the data with
\* its trailing whitespace trimmed.
IsTerminator(st, q) ==
    \/ st.text[q + 1] = "<"
    \/ (st.text[q + 1] = "/" /\ q + 1 < st.end /\ st.text[q + 2] = "*")
TextTerminator ==
    LET stops == { q \in PreStart..pre.stream.end :
                     q = pre.stream.end \/ IsTerminator(pre.stream, q) }
    IN  CHOOSE q \in stops : \A r \in stops : q <= r
TextTrimmedEnd ==
    LET ends == { q \in PreStart..TextTerminator :
                    \A r \in q..(TextTerminator - 1) : pre.stream.text[r + 1] \in Spaces }
    IN  CHOOSE q \in ends : \A r \in ends : q <= r
\* The call met character data that a `<` or `/*` ends
TextCase ==
    /\ Next_Called
    /\ pre.state = "Elements"
    /\ PreAt(0) \notin {"", "<", "/"}
    /\ TextTerminator < pre.stream.end
    /\ \A q \in PreStart..(TextTerminator - 1) : is_xml_char(pre.stream.text[q + 1])

\* C28: in Elements state a Text token covers the characters from the first
\* non-space position up to the next `<` or `/*`, trailing whitespace
\* trimmed, and the next token starts at that `<` or `/*`, also when the
\* text holds a `/` that no `*` follows.
C28_TextUpToTerminator ==
    TextCase =>
        /\ pc = "tokenizing"
        /\ ret = Some(SpanToken("Text", "", <<>>, <<>>,
                                slice_region(pre.stream, PreStart, TextTrimmedEnd),
                                <<PreStart, TextTrimmedEnd>>))
        /\ RunEnd(stream, stream.pos, Spaces) = TextTerminator

\* The same for text without any `/`
C28_TextWithoutSlash ==
    (TextCase /\ \A q \in PreStart..(TextTerminator - 1) : pre.stream.text[q + 1] # "/") =>
        /\ pc = "tokenizing"
        /\ ret = Some(SpanToken("Text", "", <<>>, <<>>,
                                slice_region(pre.stream, PreStart, TextTrimmedEnd),
                                <<PreStart, TextTrimmedEnd>>))
        /\ RunEnd(stream, stream.pos, Spaces) = TextTerminator

\* The call being looked at ended as the call `o` does
EndedAs(o) ==
    IF IsSome(o.t) /\ Unwrap(o.t).kind = "NeverReturns"
    THEN pc = "hung"
    ELSE pc = "tokenizing" /\ ret = o.t /\ stream = o.tk.stream /\ state = o.tk.state
\* The call found whitespace with something after it
SpaceCase ==
    /\ Next_Called
    /\ pre.state \in {"Root", "Elements", "AfterElements"}
    /\ pre.stream.pos < PreStart
    /\ PreStart < pre.stream.end

\* C29: whitespace before a token is accepted in Root, Elements and
\* AfterElements state: the call gives what it gives without the
\* whitespace, never an error for it.
C29_WhitespaceAccepted ==
    SpaceCase => EndedAs(next([pre EXCEPT !.stream = [@ EXCEPT !.pos = PreStart]]))

\* The same outside Root state
C29_WhitespaceAfterRootStart ==
    (SpaceCase /\ pre.state # "Root") =>
        EndedAs(next([pre EXCEPT !.stream = [@ EXCEPT !.pos = PreStart]]))

\* The call being looked at found the tokenizer in Attributes state
AttributesCase ==
    Next_Called /\ pre.state = "Attributes" /\ pre.stream.pos < pre.stream.end
\* The character the call found first, whitespace included
AttrFirst == pre.stream.text[pre.stream.pos + 1]
EndToken(end, len) ==
    Some(SpanToken("ElementEnd", end, <<>>, <<>>, <<>>, <<PreStart, PreStart + len>>))

\* C30: in Attributes state a name with no whitespace before it gives
\* InvalidAttribute(InvalidSpace), while `>` and `/>` are accepted with
\* whitespace before them or without.
C30_NameNeedsSpace ==
    AttributesCase =>
        /\ (AttrFirst \in NameChars \cup {":"}) =>
               ret = Some(Error("InvalidAttribute", "InvalidSpace"))
        /\ (PreAt(0) = ">") => ret = EndToken("Open", 1)
        /\ (PreAt(0) = "/" /\ PreAt(1) = ">") => ret = EndToken("Empty", 2)
\* A name straight after an attribute's closing quote was refused
C30_Witness ==
    /\ AttributesCase
    /\ AttrFirst \in Letters
    /\ ret = Some(Error("InvalidAttribute", "InvalidSpace"))
    /\ Len(emitted) >= 2
    /\ emitted[Len(emitted) - 1].kind = "Attribute"
C30_WitnessTerminator ==
    /\ AttributesCase
    /\ AttrFirst \in Spaces
    /\ PreAt(0) = "/"
    /\ ret = EndToken("Empty", 2)
C30_WitnessTerminatorNoSpace ==
    /\ AttributesCase
    /\ AttrFirst = ">"
    /\ ret = EndToken("Open", 1)

\* ------------------------------------------- properties of Document::new on a text
\* Document::new has polled the tokenizer for the first token
FirstPolled == call.op = "new" /\ pc # "new"
IsRootStart(t) ==
    t.kind = "ElementStart" /\ t.prefix = <<>> /\ t.local = Chars("document")
Failed(e) == pc = "failed" /\ ret = e

\* C22: Document::new fails with EmptyDocument when there is no first token
\* (empty or whitespace-only text), with InvalidRootElement and the range of
\* the first token when that token is not ElementStart of an unprefixed
\* `document`, and with SyntaxError when the first item is an error.
C22_DocumentStart ==
    FirstPolled =>
        /\ (\A i \in 1..Len(stream.text) : stream.text[i] \in Spaces) => Failed(EmptyDocument)
        /\ (emitted = <<>>) => Failed(EmptyDocument)
        /\ (emitted # <<>> /\ IsErr(emitted[1])) =>
               Failed([tag |-> "SyntaxError", error |-> emitted[1]])
        /\ (emitted # <<>> /\ ~IsErr(emitted[1]) /\ ~IsRootStart(emitted[1])) =>
               Failed([tag |-> "InvalidRootElement",
                       range |-> span_text_range(stream.text, emitted[1].span)])
\* `<p:document` was refused with the range of that start tag
C22_Witness ==
    /\ FirstPolled
    /\ emitted # <<>>
    /\ emitted[1].kind = "ElementStart"
    /\ emitted[1].prefix = <<"p">>
    /\ emitted[1].local = Chars("document")
    /\ Failed([tag |-> "InvalidRootElement",
               range |-> [start |-> [row |-> 1, col |-> 1], end |-> [row |-> 1, col |-> 12]]])
\* A comment first, after a space, was refused with the comment's range
C22_WitnessComment ==
    /\ FirstPolled
    /\ emitted # <<>>
    /\ emitted[1].kind = "Comment"
    /\ Failed([tag |-> "InvalidRootElement",
               range |-> [start |-> [row |-> 1, col |-> 2], end |-> [row |-> 1, col |-> 6]]])
C22_WitnessEmpty ==
    FirstPolled /\ stream.text = <<" ", " ">> /\ Failed(EmptyDocument)
C22_WitnessSyntaxError ==
    /\ FirstPolled
    /\ emitted = <<Error("UnknownToken", "")>>
    /\ Failed([tag |-> "SyntaxError", error |-> Error("UnknownToken", "")])

\* The step is a turn of the loop of Document::new that reads a close tag
CloseTagRead ==
    /\ call.op = "new"
    /\ pc = "loop"
    /\ hierarchy # <<>>
    /\ Len(emitted') = Len(emitted) + 1
    /\ IsClose(emitted'[Len(emitted')])
\* prefix:local, or local alone, of a name given as characters
QNameOf(prefix, local) == as_str(IF prefix = <<>> THEN local ELSE prefix \o <<":">> \o local)
\* The innermost open element
TopElem == Unwrap(element_store[hierarchy[Len(hierarchy)] + 1])
\* What the step does with the close tag t
CloseTagHandled(t) ==
    IF TopElem.prefix = as_str(t.prefix) /\ TopElem.local = as_str(t.local)
    THEN /\ hierarchy' = SubSeq(hierarchy, 1, Len(hierarchy) - 1)
         /\ pc' = "loop"
         /\ UNCHANGED <<element_store, text_store>>
    ELSE /\ pc' = "failed"
         /\ ret' = [tag |-> "InvalidTreeStructure",
                    closed_elem |-> QNameOf(t.prefix, t.local),
                    current_open_elem |->
                        IF TopElem.prefix = "" THEN TopElem.local
                        ELSE TopElem.prefix \o ":" \o TopElem.local,
                    location |-> span_text_range(stream.text, t.span)]

\* C23: in Document::new a close tag that names the innermost open element
\* pops it; any other close tag ends the parse with InvalidTreeStructure
\* that carries the close tag's full name, the innermost open element's
\* full name and the close tag's span, and no Document is returned.
C23_CloseTagMustMatch ==
    [][CloseTagRead => CloseTagHandled(emitted'[Len(emitted')])]_vars
\* `</p>` met the open element p:document
C23_Witness ==
    /\ call.op = "new"
    /\ emitted # <<>>
    /\ IsClose(emitted[Len(emitted)])
    /\ Failed([tag |-> "InvalidTreeStructure", closed_elem |-> "p",
               current_open_elem |-> "p:document",
               location |-> [start |-> [row |-> 1, col |-> 23],
                             end |-> [row |-> 1, col |-> 27]]])
\* `</p>` met the open element p and closed it
C23_WitnessPop ==
    /\ call.op = "new"
    /\ pc = "loop"
    /\ emitted # <<>>
    /\ IsClose(emitted[Len(emitted)])
    /\ hierarchy = <<0>>
    /\ Len(element_store) = 2

\* C24: Document::new never panics, whatever the text: it returns Ok or
\* Err also when tokens follow the end of the root element.
C24_NewNeverPanics == call.op = "new" => pc # "panicked"
\* A panic happens only at a comment that follows the end of the root element
C24_PanicsOnlyAfterRoot ==
    (call.op = "new" /\ pc = "panicked") =>
        /\ hierarchy = <<>>
        /\ state = "AfterElements"
        /\ emitted[Len(emitted)].kind = "Comment"

\* Document::new(x) has ended, x a text that into_string returned
RenderedParsed == call.round >= 1 /\ pc \notin {"new", "loop"}
\* x holds an attribute value with a double quote in it
QuoteInValue ==
    \E i \in 1..(Len(stream.text) - 2) : SubSeq(stream.text, i, i + 2) = <<"\"", "\"", "\"">>

\* C25: every text x that into_string returns for a parsed Document parses
\* again, and into_string of the result is x, whatever the names, the
\* attribute values (a quote character in them included) and the texts.
C25_RoundTrip ==
    RenderedParsed => (pc = "ready" \/ (pc = "rendered" /\ Some(ret.out) = pre))
\* The same for the texts x without a double quote in an attribute value
C25_RoundTripWithoutQuote ==
    (RenderedParsed /\ ~QuoteInValue) =>
        (pc = "ready" \/ (pc = "rendered" /\ Some(ret.out) = pre))
\* A rendered text with an attribute and a child element came back
C25_RoundTripReached ==
    /\ RenderedParsed
    /\ pc = "rendered"
    /\ Some(ret.out) = pre
    /\ Len(element_store) = 2
    /\ Unwrap(element_store[1]).attributes # <<>>

\* ------------------------------------------- more properties of the tokenizer
\* Where the call being looked at reads its token: Root state reads at the
\* position itself, the other states after the whitespace
ReadAt == IF pre.state = "Root" THEN pre.stream.pos ELSE PreStart
ReadIs(i, c) == ReadAt + i < pre.stream.end /\ pre.stream.text[ReadAt + i + 1] = c
LooksForToken == Next_Called /\ pre.state \in {"Root", "Elements", "AfterElements"}
\* The offsets of a `*/` after the opening `/*`
Closers ==
    { q \in (ReadAt + 2)..(pre.stream.end - 2) :
        pre.stream.text[q + 1] = "*" /\ pre.stream.text[q + 2] = "/" }
FirstCloser == CHOOSE q \in Closers : \A r \in Closers : q <= r
\* The comment closes, with XML characters only before the `*/`
CommentCloses ==
    /\ Closers # {}
    /\ \A q \in (ReadAt + 2)..(FirstCloser - 1) : pre.stream.text[q + 1] # NonXmlChar

C31_WitnessUnclosed ==
    /\ LooksForToken
    /\ pre.stream.text = <<"/", "*", "/">>
    /\ ret = Some(Error("InvalidComment", "UnexpectedEndOfStream"))
C31_WitnessNoComment ==
    /\ LooksForToken
    /\ pre.state = "Root"
    /\ ReadIs(0, "*") /\ ReadIs(1, "/")
    /\ ret = Some(Error("UnknownToken", ""))

\* The token the call being looked at returned, when it returned one
Returned == Next_Called /\ pc = "tokenizing" /\ IsSome(ret) /\ ~IsErr(Unwrap(ret))
\* The bytes of the buffer a span covers
Slice(span) == SubSeq(pre.stream.text, span[1] + 1, span[2])
QName(t) == IF t.prefix = <<>> THEN t.local ELSE t.prefix \o <<":">> \o t.local
AllSpaces(cs) == \A i \in 1..Len(cs) : cs[i] \in Spaces
\* cs is `=` with whitespace around it, then the value between two equal quotes
IsEqValue(cs, value) ==
    \E i \in 1..Len(cs) : \E q \in {"'", "\""} :
        /\ cs[i] = "="
        /\ AllSpaces(SubSeq(cs, 1, i - 1))
        /\ \E j \in (i + 1)..Len(cs) :
             /\ AllSpaces(SubSeq(cs, i + 1, j - 1))
             /\ SubSeq(cs, j, Len(cs)) = <<q>> \o value \o <<q>>
\* cs is the text a token of these fields is written as
IsLexeme(t, cs) ==
    CASE t.kind = "ElementStart" -> cs = <<"<">> \o QName(t)
      [] t.kind = "ElementEnd" /\ t.end = "Open" -> cs = <<">">>
      [] t.kind = "ElementEnd" /\ t.end = "Empty" -> cs = <<"/", ">">>
      [] t.kind = "ElementEnd" /\ t.end = "Close" ->
           /\ Len(cs) >= Len(QName(t)) + 3
           /\ SubSeq(cs, 1, Len(QName(t)) + 2) = <<"<", "/">> \o QName(t)
           /\ AllSpaces(SubSeq(cs, Len(QName(t)) + 3, Len(cs) - 1))
           /\ cs[Len(cs)] = ">"
      [] t.kind = "Attribute" ->
           /\ Len(cs) > Len(QName(t))
           /\ SubSeq(cs, 1, Len(QName(t))) = QName(t)
           /\ IsEqValue(SubSeq(cs, Len(QName(t)) + 1, Len(cs)), t.text)
      [] t.kind = "Modifier" -> cs = QName(t)
      [] t.kind = "Comment" -> cs = <<"/", "*">> \o t.text \o <<"*", "/">>
      [] t.kind = "Text" -> cs = t.text
      [] OTHER -> FALSE
\* Where the first token of a document starts: after the BOM and the whitespace
AfterBOM == IF Len(stream.text) >= 3 /\ SubSeq(stream.text, 1, 3) = BOM THEN 3 ELSE 0
LeadEnd == RunEnd(stream, AfterBOM, Spaces)
SpanFaithful(t) ==
    /\ t.span[1] = PreStart
    /\ t.span[2] <= pre.stream.end
    /\ IsLexeme(t, Slice(t.span))
LeadSkipped ==
    /\ (call.op = "from" /\ ~fragment_parsing) => (stream.pos = LeadEnd /\ emitted = <<>>)
    /\ (Next_Called /\ ~fragment_parsing /\ LeadEnd = stream.end) =>
           (ret = None /\ emitted = <<>>)

\* C32: a leading BOM and leading whitespace are skipped and give no token
\* (an empty or whitespace-only text gives none at all), and the span of
\* every token is the byte range of the buffer, counted from its start,
\* that holds the token as written.
C32_SpansFaithful ==
    /\ LeadSkipped
    /\ Returned => SpanFaithful(Unwrap(ret))
\* The same for every token but a Modifier
C32_SpansFaithfulButModifier ==
    /\ LeadSkipped
    /\ (Returned /\ Unwrap(ret).kind # "Modifier") => SpanFaithful(Unwrap(ret))
\* After a BOM and a space the start tag has the span 4..6
C32_BOMSkipped ==
    /\ Returned
    /\ Len(stream.text) >= 4
    /\ SubSeq(stream.text, 1, 4) = BOM \o <<" ">>
    /\ ret = Some(SpanToken("ElementStart", "", <<>>, <<"p">>, <<>>, <<4, 6>>))

\* ------------------------------------------- the Document that Document::new builds
\* Document::new has returned Ok for the text whose tokens are in `emitted`
Parsed == call.op = "new" /\ pc = "ready"
StartTokens == { i \in 1..Len(emitted) : emitted[i].kind = "ElementStart" }
TextTokens == { i \in 1..Len(emitted) : emitted[i].kind = "Text" }
AttrTokens == { i \in 1..Len(emitted) : emitted[i].kind \in {"Attribute", "Modifier"} }
EndsElement(i) == emitted[i].kind = "ElementEnd" /\ emitted[i].end \in {"Empty", "Close"}
\* How many members of set come before token i, and the n-th member
Rank(set, i) == Cardinality({ m \in set : m < i })
Nth(set, n) == CHOOSE m \in set : Rank(set, m) = n - 1
\* The element started at token j is still open when token i is read
StillOpen(j, i) ==
    \A k \in (j + 1)..(i - 1) :
        Cardinality({ m \in (j + 1)..k : EndsElement(m) })
            <= Cardinality({ m \in (j + 1)..k : m \in StartTokens })
OpenAt(i) == { j \in StartTokens : j < i /\ StillOpen(j, i) }
\* The start token of the innermost element open at token i; the root's own
\* parent is the root
ParentToken(i) == IF OpenAt(i) = {} THEN 1 ELSE CHOOSE j \in OpenAt(i) : \A r \in OpenAt(i) : r <= j
ChildTokens(i) == { c \in StartTokens \cup TextTokens : c > i /\ ParentToken(c) = i }
OwnAttrTokens(i) == { a \in AttrTokens : a > i /\ \A m \in StartTokens : ~(i < m /\ m < a) }
ExpectedRef(c) ==
    IF c \in StartTokens THEN [tag |-> "Element", idx |-> Rank(StartTokens, c)]
    ELSE [tag |-> "Text", idx |-> Rank(TextTokens, c)]
ExpectedAttribute(a) ==
    [prefix |-> as_str(a.prefix), local |-> as_str(a.local),
     value |-> IF a.kind = "Attribute" THEN <<as_str(a.text)>> ELSE <<>>]
ExpectedElement(i) ==
    [parent |-> Rank(StartTokens, ParentToken(i)),
     children |-> [n \in 1..Cardinality(ChildTokens(i)) |-> ExpectedRef(Nth(ChildTokens(i), n))],
     prefix |-> as_str(emitted[i].prefix),
     local |-> as_str(emitted[i].local),
     attributes |-> [n \in 1..Cardinality(OwnAttrTokens(i)) |->
                        ExpectedAttribute(emitted[Nth(OwnAttrTokens(i), n)])]]
ExpectedText(i) ==
    [parent |-> Rank(StartTokens, ParentToken(i)), content |-> as_str(emitted[i].text)]

\* C33: after a successful Document::new the elements and the texts are in
\* their stores in the order of their tokens, the parent of each is the
\* innermost element open when its token was read, children hold the child
\* elements and texts in that order, attributes and modifiers are on the
\* element whose start tag holds them, in order, a modifier without a
\* value; and the document satisfies the parent/child invariant.
C33_DocumentAsTokens ==
    Parsed =>
        /\ Len(element_store) = Cardinality(StartTokens)
        /\ Len(text_store) = Cardinality(TextTokens)
        /\ \A i \in StartTokens :
               element_store[Rank(StartTokens, i) + 1] = <<ExpectedElement(i)>>
        /\ \A i \in TextTokens :
               text_store[Rank(TextTokens, i) + 1] = <<ExpectedText(i)>>
        /\ TreeConsistent(Doc)
\* `<document><p>t</p>`: the text is under p, p under the root
C33_Witness ==
    /\ Parsed
    /\ Len(element_store) = 2
    /\ text_store = <<Some(Text(1, "t"))>>
    /\ Unwrap(element_store[2]).children = <<TextRef(0)>>
    /\ Unwrap(element_store[1]).children = <<ElementRef(1)>>
    /\ hierarchy = <<0>>
\* A modifier and then an attribute on the root
C33_WitnessAttributes ==
    /\ Parsed
    /\ Unwrap(element_store[1]).attributes
           = <<Attribute("", "m", None), Attribute("", "k", Some("v"))>>

\* ------------------------------------------- the text into_string gives
\* into_string has returned for the Document that Document::new built
Rendered == call.op = "into_string" /\ pc = "rendered"
RECURSIVE Indent(_)
Indent(level) == IF level = 0 THEN "" ELSE Indent(level - 1) \o "\t"
NameOf(e) == IF e.prefix = "" THEN e.local ELSE e.prefix \o ":" \o e.local
RECURSIVE AttrsWritten(_)
\* ` name="value"` for an attribute and ` name` for a modifier, in order
AttrsWritten(as) ==
    IF as = <<>> THEN ""
    ELSE AttrsWritten(SubSeq(as, 1, Len(as) - 1))
         \o " " \o NameOf(as[Len(as)])
         \o (IF as[Len(as)].value = <<>> THEN "" ELSE "=\"" \o as[Len(as)].value[1] \o "\"")
RECURSIVE LinesOf(_, _, _)
RECURSIVE ChildLines(_, _, _)
\* The lines of the children cs, each one tab deeper than `level`
ChildLines(doc, cs, level) ==
    IF cs = <<>> THEN <<>>
    ELSE ChildLines(doc, SubSeq(cs, 1, Len(cs) - 1), level)
         \o (IF cs[Len(cs)].tag = "Element"
             THEN LinesOf(doc, cs[Len(cs)].idx, level + 1)
             ELSE <<Indent(level + 1) \o doc.text_store[cs[Len(cs)].idx + 1][1].content>>)
\* The lines element i is written as at depth `level`
LinesOf(doc, i, level) ==
    IF doc.element_store[i + 1][1].children = <<>>
    THEN <<Indent(level) \o "<" \o NameOf(doc.element_store[i + 1][1])
           \o AttrsWritten(doc.element_store[i + 1][1].attributes) \o " />">>
    ELSE <<Indent(level) \o "<" \o NameOf(doc.element_store[i + 1][1])
           \o AttrsWritten(doc.element_store[i + 1][1].attributes) \o ">">>
         \o ChildLines(doc, doc.element_store[i + 1][1].children, level)
         \o <<Indent(level) \o "</" \o NameOf(doc.element_store[i + 1][1]) \o ">">>
RECURSIVE Joined(_)
\* The lines, each ended by a newline
Joined(lines) == IF lines = <<>> THEN "" ELSE Head(lines) \o "\n" \o Joined(Tail(lines))

\* C34: into_string writes an element without children as one line
\* `<name attrs />`, an element with children as an opening line, each
\* child in order one tab deeper (a text on a line of its own) and a
\* closing line at the element's own depth; attributes come in order and
\* a modifier is its bare name without `=`.
C34_RenderedLines ==
    Rendered => (~ret.panic /\ ret.out = Joined(LinesOf(Doc, 0, 0)))
\* A child with a modifier, under the root
C34_Witness ==
    /\ Rendered
    /\ ret.out = "<document>\n\t<p m />\n</document>\n"
\* A text under a child under the root
C34_WitnessText ==
    /\ Rendered
    /\ ret.out = "<document>\n\t<p>\n\t\tt\n\t</p>\n</document>\n"

\* ------------------------------------------- depth and state of the tokenizer
\* C35: outside fragment mode the depth is at least 1 whenever the
\* tokenizer is in Elements state and 0 whenever it is in AfterElements;
\* so a close tag is never processed at depth 0.
C35_DepthOfState ==
    ~fragment_parsing =>
        /\ (state = "Elements") => depth >= 1
        /\ (state = "AfterElements") => depth = 0
        /\ (Next_Called /\ pre.state = "Elements" /\ PreAt(0) = "<" /\ PreAt(1) = "/") =>
               pre.depth >= 1
\* Two elements deep, then a close tag read at depth 1 that ends the root
C35_Witness ==
    /\ ~fragment_parsing
    /\ Next_Called
    /\ pre.state = "Elements"
    /\ pre.depth = 1
    /\ IsSome(ret)
    /\ IsClose(Unwrap(ret))
    /\ state = "AfterElements"
    /\ depth = 0
    /\ \E i \in 1..Len(emitted) : Balance(i) = 2

\* ------------------------------------------- the stack of Document::new and the depth
\* The loop of Document::new has just processed an ElementEnd token without error
ElementEndProcessed ==
    /\ call.op = "new"
    /\ pc = "loop"
    /\ emitted # <<>>
    /\ emitted[Len(emitted)].kind = "ElementEnd"

\* C36: in Document::new, after each ElementEnd token processed without
\* error the stack of open elements is as long as the tokenizer's depth;
\* so it is empty exactly when the tokenizer is in AfterElements.
C36_StackIsDepth ==
    ElementEndProcessed =>
        /\ Len(hierarchy) = depth
        /\ (hierarchy = <<>>) <=> (state = "AfterElements")
\* Two elements open after a `>`
C36_Witness ==
    /\ ElementEndProcessed
    /\ emitted[Len(emitted)].end = "Open"
    /\ Len(hierarchy) = 2
    /\ depth = 2
\* The root closed by its close tag
C36_WitnessEmpty ==
    /\ ElementEndProcessed
    /\ emitted[Len(emitted)].end = "Close"
    /\ hierarchy = <<>>
    /\ state = "AfterElements"

\* ------------------------------------------- a text that ends with elements open
\* Every close tag read names the innermost element open where it stands
ProperlyNested ==
    \A c \in 1..Len(emitted) :
        IsClose(emitted[c]) =>
            /\ OpenAt(c) # {}
            /\ emitted[ParentToken(c)].prefix = emitted[c].prefix
            /\ emitted[ParentToken(c)].local = emitted[c].local
\* The last token read before any error
LastRead == IF Errors = {} THEN Len(emitted) ELSE (CHOOSE e \in Errors : \A r \in Errors : e <= r) - 1
\* Document::new has ended on a text that is tags properly nested so far,
\* stops right after a tag or after the root's name, and leaves elements open
EndsOpen ==
    /\ call.op = "new"
    /\ pc \notin {"new", "loop"}
    /\ LastRead >= 1
    /\ IsRootStart(emitted[1])
    /\ emitted[LastRead].kind \in {"ElementStart", "ElementEnd"}
    /\ emitted[LastRead].span[2] = Len(stream.text)
    /\ ProperlyNested
    /\ OpenAt(LastRead + 1) # {}

\* C37: Document::new does not ask for open elements to be closed: on a
\* text that ends right after a tag, or right after the root's name, with
\* elements still open, the root among them or alone, it returns Ok and
\* the store holds those elements.
C37_OpenElementsAccepted ==
    EndsOpen =>
        /\ pc = "ready"
        /\ ret = ParseOk
        /\ Len(element_store) = Cardinality(StartTokens)
        /\ \A j \in OpenAt(LastRead + 1) :
               /\ Live(element_store, Rank(StartTokens, j))
               /\ Unwrap(element_store[Rank(StartTokens, j) + 1]).local = as_str(emitted[j].local)
\* `<document><p>`: the root and p both open at the end
C37_Witness ==
    /\ EndsOpen
    /\ pc = "ready"
    /\ Cardinality(OpenAt(LastRead + 1)) = 2
    /\ hierarchy = <<0, 1>>
    /\ Len(element_store) = 2
\* `<document`: the text ends after the root's name
C37_WitnessName ==
    /\ EndsOpen
    /\ pc = "ready"
    /\ Len(emitted) = 1
    /\ hierarchy = <<0>>

\* ------------------------------------------- close tag at depth 0, fragment
\* C38: in fragment mode a lexically valid close tag met at depth 0 leaves
\* the depth at 0 and the tokenizer in Elements state, and is returned as an
\* ElementEnd::Close token.
C38_FragmentCloseAtZero ==
    (Next_Called /\ pre.fragment_parsing /\ pre.state = "Elements" /\ pre.depth = 0
                 /\ ValidCloseTag) =>
        /\ pc = "tokenizing"
        /\ depth = 0
        /\ state = "Elements"
        /\ IsSome(ret)
        /\ Unwrap(ret).kind = "ElementEnd"
        /\ Unwrap(ret).end = "Close"

\* C38 witness: a fragment that begins with a close tag, which was returned
\* as the first token with the depth still 0.
C38_Witness ==
    /\ Next_Called
    /\ pre.fragment_parsing
    /\ pre.state = "Elements"
    /\ pre.depth = 0
    /\ pre.stream.pos = 0
    /\ ValidCloseTag
    /\ Len(emitted) = 1
    /\ IsClose(emitted[1])
    /\ depth = 0
    /\ state = "Elements"

\* C38 witness: the second of two close tags in a row after one open tag
\* (`<p></p></p>` as a fragment), met at depth 0 after the first closed it.
C38_WitnessAfterClose ==
    /\ Next_Called
    /\ pre.fragment_parsing
    /\ pre.depth = 0
    /\ ValidCloseTag
    /\ Len(emitted) = 4
    /\ IsClose(emitted[3])
    /\ IsClose(emitted[4])
    /\ depth = 0
\* ------------------------------------------- formatting a tokenizer
Fmt_Called == call.op = "fmt"

\* C39: formatting a tokenizer leaves its state and position as they were
\* and never panics: fmt returns Ok, and no line is written with an indent
\* level that was decremented below zero.
C39_DisplayNeverPanics ==
    Fmt_Called =>
        /\ TheTokenizer = pre
        /\ pc # "panicked"
        /\ ret.exit # "panic"
        /\ \A i \in 1..Len(ret.lines) : ret.lines[i].indent < UsizeMax - 3

\* C39, the part about the clone: fmt leaves the formatted tokenizer as it was.
C39_FormattedUnchanged ==
    Fmt_Called => TheTokenizer = pre

\* C39, the tokenizers fmt does not panic on: a document tokenizer that has
\* no element open and is not inside a tag (a fresh one, or one that has
\* ended) is formatted without panic, each line indented by its nesting.
C39_WholeDocumentNoPanic ==
    (Fmt_Called /\ ~pre.fragment_parsing /\ pre.state # "Attributes"
                /\ pre.depth = 0 /\ pre.state # "AfterElements") =>
        /\ ret.exit # "panic"
        /\ \A i \in 1..Len(ret.lines) : ret.lines[i].indent <= 4 * MaxFmtPieces

\* C39: a fresh fragment tokenizer over a text that begins with a close tag
\* was formatted in a build with overflow checks, and fmt panicked.
C39_ReachedPanic ==
    /\ Fmt_Called
    /\ pre.fragment_parsing
    /\ pre.stream.pos = 0
    /\ emitted = <<>>
    /\ overflow_checks
    /\ pc = "panicked"
    /\ ret.lines = <<>>

\* C39: the same in a build without overflow checks: the line of the close
\* tag was written with the padding of the wrapped indent level.
C39_ReachedWrap ==
    /\ Fmt_Called
    /\ pre.fragment_parsing
    /\ pre.stream.pos = 0
    /\ emitted = <<>>
    /\ ~overflow_checks
    /\ Len(ret.lines) >= 1
    /\ ret.lines[1].kind = "ElementEnd"
    /\ ret.lines[1].indent = UsizeMax - 3

\* C39: a document tokenizer that had returned the root's ElementStart was
\* formatted, and fmt panicked at the end of the root's open tag.
C39_ReachedPanicAfterStart ==
    /\ Fmt_Called
    /\ ~pre.fragment_parsing
    /\ pre.state = "Attributes"
    /\ Len(emitted) = 1
    /\ overflow_checks
    /\ pc = "panicked"

\* C39: a fresh document tokenizer over `<p></p>` was formatted without
\* panic, the lines indented by the nesting.
C39_ReachedDocument ==
    /\ Fmt_Called
    /\ ~pre.fragment_parsing
    /\ pre.stream.pos = 0
    /\ ret.exit = "Ok"
    /\ Len(ret.lines) = 3
    /\ ret.lines[1].indent = 0
    /\ ret.lines[2].indent = 0
    /\ ret.lines[3].kind = "ElementEnd"
    /\ ret.lines[3].indent = 0
====
